---- MODULE Spec2Model ----
(***************************************************************************)
(* Play Resolution Engine of the gamification engine: the storefront       *)
(* handlers POST /api/proxy/play and POST /api/proxy/track                 *)
(* (src/src/routes/proxy.ts), the outcome resolver and the code generator  *)
(* (src/src/utils/index.ts) and the commerce platform client               *)
(* (src/src/lib/shopify.ts), over the persisted store.                     *)
(*                                                                         *)
(* Every `await` of a handler is a suspension point: a play request is a   *)
(* process whose steps are the awaited store and platform calls, and the   *)
(* steps of different requests interleave freely.  The reads at the head   *)
(* of the play handler (session, game, rule) touch rows that no action of  *)
(* the model writes, so they form one step together with the validation.   *)
(* Time is counted in hours.                                               *)
(***************************************************************************)
EXTENDS Integers, Sequences, FiniteSets, TLC

\* ------------------------------------------------------------------ bounds
NumReq == 2          \* requests (play or track) of one behaviour
StartHour == 23      \* hour of the initial state (one hour before midnight)
TickHours == 2       \* hours between two readings of the clock
MaxDay == 49         \* no day passes once the clock has reached this hour
MaxTime == 25        \* the clock stops once it has reached this hour
NumSuffix == 2       \* distinct random suffixes nanoid may return
DrawRes == 2         \* Math.random() is sampled on a grid of 1/DrawRes
MaxFaults == 1       \* store and platform failures injected in one behaviour
NumOrders == 2       \* order-paid deliveries of one behaviour
MaxItems == 3        \* items of a list handed to the outcome resolver
MaxTargeting == 2    \* targeting rules of one shop
MaxWeight == 2       \* largest weight of an item of such a list
WindowEdge == 24     \* the hour at which the date window of a Game opens or closes

\* ------------------------------------------------------- program constants
HoursPerDay == 24

NONE == "none"       \* null / undefined / missing field
NoDate == -1         \* null, for a date

Requests == 1..NumReq
Orders == 1..NumOrders

\* ------------------------------------------------------------ config store
\* The catalog of Games with their segments (ordered by `order`), read-only
\* at play time.  startDate and endDate are hours, NoDate when open.  The window
\* of g4 closes, and that of g5 opens, between two readings of the clock; the
\* segments of g6 all have weight 0.
Games ==
  { [id |-> "g1", shopId |-> "s1", isActive |-> TRUE, startDate |-> NoDate, endDate |-> NoDate,
     segments |-> << [id |-> "sg1", type |-> "PERCENTAGE", value |-> 10, probability |-> 1],
                     [id |-> "sg2", type |-> "NO_PRIZE",   value |-> 0,  probability |-> 1] >>],
    [id |-> "g2", shopId |-> "s1", isActive |-> TRUE, startDate |-> NoDate, endDate |-> NoDate,
     segments |-> << [id |-> "sg3", type |-> "FREE_SHIPPING", value |-> 0, probability |-> 1] >>],
    [id |-> "g3", shopId |-> "s1", isActive |-> FALSE, startDate |-> NoDate, endDate |-> NoDate,
     segments |-> << [id |-> "sg4", type |-> "NO_PRIZE", value |-> 0, probability |-> 1] >>],
    [id |-> "g4", shopId |-> "s1", isActive |-> TRUE, startDate |-> NoDate, endDate |-> WindowEdge,
     segments |-> << [id |-> "sg5", type |-> "NO_PRIZE", value |-> 0, probability |-> 1] >>],
    [id |-> "g5", shopId |-> "s1", isActive |-> TRUE, startDate |-> WindowEdge, endDate |-> NoDate,
     segments |-> << [id |-> "sg6", type |-> "NO_PRIZE", value |-> 0, probability |-> 1] >>],
    [id |-> "g6", shopId |-> "s1", isActive |-> TRUE, startDate |-> NoDate, endDate |-> NoDate,
     segments |-> << [id |-> "sg7", type |-> "PERCENTAGE", value |-> 10, probability |-> 0],
                     [id |-> "sg8", type |-> "NO_PRIZE",   value |-> 0,  probability |-> 0] >>] }

\* a Game of a second shop, s2
OtherShopGame ==
  [id |-> "g7", shopId |-> "s2", isActive |-> TRUE, startDate |-> NoDate, endDate |-> NoDate,
   segments |-> << [id |-> "sg9", type |-> "PERCENTAGE", value |-> 10, probability |-> 1] >>]

AllGames == Games \cup {OtherShopGame}

Game(gameId) == CHOOSE g \in AllGames : g.id = gameId

\* the Game rows of the specification of the play and track handlers
PlayGames == { Game("g1"), Game("g2"), Game("g3") }

\* Shop rows by domain
Shops ==
  [domain \in {"d1", "d0"} |->
     [id |-> IF domain = "d1" THEN "s1" ELSE "s0", isActive |-> domain = "d1"]]

AllSegments == UNION { { g.segments[i] : i \in 1..Len(g.segments) } : g \in AllGames }

Segment(segmentId) == CHOOSE s \in AllSegments : s.id = segmentId

\* Discount rules in creation order (createdAt ascending).  The shop-wide
\* rule r0 is inactive; r1 is specific to game g1.
RuleConfig(maxPlays, cooldownHours, requireEmail) ==
  << [id |-> "r0", shopId |-> "s1", gameId |-> NONE, isActive |-> FALSE,
      maxPlaysPerVisitor |-> 1, cooldownHours |-> 1, requireEmail |-> FALSE, validityDays |-> 1],
     [id |-> "r1", shopId |-> "s1", gameId |-> "g1", isActive |-> TRUE,
      maxPlaysPerVisitor |-> maxPlays, cooldownHours |-> cooldownHours, requireEmail |-> requireEmail,
      validityDays |-> 1] >>

\* the rule configurations explored
RuleConfigs == { RuleConfig(1, 1, FALSE), RuleConfig(2, 2, TRUE) }

VisitorIds == {"v1", "v2"}
Tokens == {"t1", "t2", "t3"}

\* ------------------------------------------------------------------- state
VARIABLES
  shops,      \* Shop rows: domain -> [id, isActive]
  games,      \* Game rows (with their segments)
  targeting,  \* TargetingRule rows
  resolverItems,   \* a weighted list handed to the outcome resolver
  resolverResult,  \* the draw made on it and the item the resolver returned
  now,        \* the clock, in hours
  rules,      \* DiscountRule rows, in creation order
  visitors,   \* Visitor rows: visitorId -> [shopId, email, totalPlays, totalWins]
  sessions,   \* Session rows: token -> [visitorId, isActive, lastActivityAt, currentPage]
  plays,      \* Play rows
  discounts,  \* Discount rows
  analytics,  \* Analytics rows, keyed by (gameId, date)
  req,        \* requests: position in the handler and its local variables
  resp,       \* requests: the response sent (and the error logged)
  writes,     \* requests: the store writes the request has performed
  faults,     \* number of failures injected so far
  orders      \* order-paid deliveries: position in the handler and its local variables

vars == << shops, games, targeting, resolverItems, resolverResult, now, rules, visitors, sessions, plays, discounts, analytics, req, resp, writes, faults, orders >>

\* what the storefront handlers do not write, beside the rules
fixed == << shops, games, targeting, resolverItems, resolverResult, orders >>

NoSelection == [drawn |-> FALSE, random |-> 0, index |-> 0]

NoCode == [prefix |-> NONE, value |-> 0, random |-> 0]

IdleReq == [pc |-> "idle", op |-> NONE, token |-> NONE, gameId |-> NONE, email |-> NONE,
            page |-> NONE, utmSource |-> NONE, seg |-> NONE, code |-> NoCode, expiresAt |-> 0,
            shopifyId |-> NONE, discountId |-> 0,
            shopId |-> NONE, fingerprint |-> NONE, visitorId |-> NONE, isNewVisitor |-> FALSE,
            sessionActive |-> FALSE]

\* a request that has answered keeps the session and game it resolved
DoneReq(old, op) ==
  [IdleReq EXCEPT !.pc = "done", !.op = op, !.token = old.token, !.gameId = old.gameId]

NoResp == [status |-> 0, error |-> NONE, log |-> NONE, playId |-> 0, result |-> NONE,
           sessionToken |-> NONE, visitorId |-> NONE, isNewVisitor |-> FALSE,
           canPlay |-> FALSE, cooldownRemaining |-> 0, activeGame |-> NONE,
           sessionActive |-> FALSE, valid |-> FALSE, reason |-> NONE, code |-> NoCode]

\* an order-paid delivery that has not arrived
NoCustomer == [present |-> FALSE, email |-> NONE]

IdleOrder == [pc |-> "idle", shopId |-> NONE, codes |-> << >>, customer |-> NoCustomer,
              discountId |-> 0, visitorId |-> NONE, customerId |-> NONE, email |-> NONE,
              status |-> 0]

\* The store before the first request: two Visitors with a Session each, and
\* a third Session whose active flag is cleared.
StoreInit ==
  /\ now = StartHour
  /\ shops = Shops
  /\ visitors = [v \in VisitorIds |->
                   [shopId |-> "s1", fingerprint |-> IF v = "v2" THEN "f2" ELSE "f1",
                    email |-> IF v = "v2" THEN "v2@x" ELSE NONE, customerId |-> NONE,
                    lastVisit |-> StartHour, totalPlays |-> 0, totalWins |-> 0]]
  /\ sessions = [t \in Tokens |->
                   [visitorId |-> IF t = "t2" THEN "v2" ELSE "v1",
                    isActive |-> t # "t3",
                    lastActivityAt |-> StartHour, currentPage |-> "/"]]
  /\ plays = {}
  /\ discounts = {}
  /\ analytics = {}
  /\ req = [r \in Requests |-> IdleReq]
  /\ resp = [r \in Requests |-> NoResp]
  /\ writes = [r \in Requests |-> {}]
  /\ faults = 0
  /\ orders = [o \in Orders |-> IdleOrder]

Init ==
  /\ StoreInit
  /\ games = PlayGames
  /\ rules \in RuleConfigs
  /\ targeting = {}
  /\ resolverItems = << >>
  /\ resolverResult = NoSelection

\* --------------------------------------------------------- pure functions
RECURSIVE SumProbability(_, _)
SumProbability(items, i) ==
  IF i > Len(items) THEN 0 ELSE items[i].probability + SumProbability(items, i + 1)

totalProbability(items) == SumProbability(items, 1)

\* The values Math.random() * totalProbability takes, in units of 1/DrawRes:
\* Math.random() lies in [0, 1).
RandomDraws(items) ==
  IF totalProbability(items) = 0 THEN {0} ELSE 0..(DrawRes * totalProbability(items) - 1)

\* The selection loop of weightedRandom from item i on; `random` is in units
\* of 1/DrawRes.  Returns the index of the selected item.
RECURSIVE SelectItem(_, _, _)
SelectItem(items, i, random) ==
  IF i > Len(items)
    THEN Len(items)
    ELSE LET rest == random - DrawRes * items[i].probability
         IN  IF rest <= 0 THEN i ELSE SelectItem(items, i + 1, rest)

\* Index of the selected item; 0 stands for null.
weightedRandom(items, random) ==
  IF Len(items) = 0 THEN 0 ELSE SelectItem(items, 1, random)

\* prefix of the code of a winning segment
CodePrefix(winningSegment) ==
  IF winningSegment.type = "PERCENTAGE"
    THEN [prefix |-> "SPIN", value |-> winningSegment.value]
    ELSE IF winningSegment.type = "FREE_SHIPPING"
      THEN [prefix |-> "FREESHIP", value |-> 0]
      ELSE [prefix |-> "SAVE", value |-> winningSegment.value]

\* `${prefix}-${nanoid(6).toUpperCase()}`; `random` is what nanoid returns
generateDiscountCode(prefix, random) ==
  [prefix |-> prefix.prefix, value |-> prefix.value, random |-> random]

addDays(date, days) == date + days * HoursPerDay

\* today.setHours(0, 0, 0, 0)
StartOfDay(date) == (date \div HoursPerDay) * HoursPerDay

\* ------------------------------------------------------------ store reads
\* session.findUnique({ token }) and the check of its active flag
SessionValid(sessionToken) ==
  /\ sessionToken \in DOMAIN sessions
  /\ sessions[sessionToken].isActive

FindGame_AnyShop(gameId, shopId) ==
  { g \in games : g.id = gameId /\ g.isActive }

\* game.findFirst({ id, shopId, isActive: true })
FindGame(gameId, shopId) ==
  { g \in games : g.id = gameId /\ g.shopId = shopId /\ g.isActive }

\* discountRule.findFirst({ shopId, isActive, OR [gameId, null] }, createdAt asc):
\* index in rules of the rule found, 0 when there is none
RuleMatches(i, gameId, shopId) ==
  /\ rules[i].shopId = shopId
  /\ rules[i].isActive
  /\ rules[i].gameId \in {gameId, NONE}

FindRule(gameId, shopId) ==
  IF \E i \in 1..Len(rules) : RuleMatches(i, gameId, shopId)
    THEN CHOOSE i \in 1..Len(rules) :
           /\ RuleMatches(i, gameId, shopId)
           /\ \A j \in 1..(i - 1) : ~RuleMatches(j, gameId, shopId)
    ELSE 0

\* play.count({ visitorId, gameId, playedAt >= cooldownStart })
CountPlays(visitorId, gameId, cooldownStart) ==
  Cardinality({ p \in plays :
                  p.visitorId = visitorId /\ p.gameId = gameId /\ p.playedAt >= cooldownStart })

\* the local variables of request r, once its session, game and rule are read
VisitorOf(r) == sessions[req[r].token].visitorId
GameOf(r) == Game(req[r].gameId)
RuleOf(r) == rules[FindRule(req[r].gameId, visitors[VisitorOf(r)].shopId)]
isWin(r) == Segment(req[r].seg).type # "NO_PRIZE"

\* ----------------------------------------------------------- the responses
Answer(r, op, status, error) ==
  /\ req' = [req EXCEPT ![r] = DoneReq(req[r], op)]
  /\ resp' = [resp EXCEPT ![r] = [NoResp EXCEPT !.status = status, !.error = error]]

Respond(r, status, error) == Answer(r, "play", status, error)

\* the catch block of a handler: the error is logged, the answer is a 500
Throw(r, error) ==
  /\ req' = [req EXCEPT ![r] = DoneReq(req[r], req[r].op)]
  /\ resp' = [resp EXCEPT ![r] = [NoResp EXCEPT !.status = 500,
                                                !.error = "Internal server error",
                                                !.log = error]]

\* A store write or a platform call may fail; failures are counted.
Injected(failure) ==
  IF failure THEN faults < MaxFaults /\ faults' = faults + 1 ELSE UNCHANGED faults

\* --------------------------------------------------------- POST /play
\* rule.requireEmail && !email && !visitor.email
EmailMissing(rule, email, visitor) ==
  rule.requireEmail /\ email = NONE /\ visitor.email = NONE

\* email && !visitor.email
BackfillsEmail(email, visitor) ==
  email # NONE /\ visitor.email = NONE

\* recentPlays >= rule.maxPlaysPerVisitor
LimitReached(recentPlays, rule) ==
  recentPlays >= rule.maxPlaysPerVisitor

\* Validation and the reads of session (with its visitor), game and rule.
PlayStart(r, sessionToken, gameId, email) ==
  /\ req[r].pc = "idle"
  /\ \A q \in Requests : q < r => req[q].pc # "idle"   \* numbered as they arrive
  /\ UNCHANGED << fixed, now, rules, visitors, sessions, plays, discounts, analytics, writes, faults >>
  /\ IF sessionToken = NONE \/ gameId = NONE
       THEN Respond(r, 400, "Missing required fields")
     ELSE IF ~SessionValid(sessionToken)
       THEN Respond(r, 401, "Invalid session")
     ELSE LET visitor == visitors[sessions[sessionToken].visitorId]
          IN
          IF FindGame(gameId, visitor.shopId) = {}
            THEN Respond(r, 404, "Game not found")
          ELSE IF FindRule(gameId, visitor.shopId) = 0
            THEN Respond(r, 400, "No discount rule found")
          ELSE IF EmailMissing(rules[FindRule(gameId, visitor.shopId)], email, visitor)
            THEN Respond(r, 400, "Email required")
          ELSE /\ req' = [req EXCEPT ![r] =
                            [IdleReq EXCEPT
                               !.op = "play",
                               !.pc = IF BackfillsEmail(email, visitor)
                                        THEN "email" ELSE "count",
                               !.token = sessionToken,
                               !.gameId = gameId,
                               !.email = IF BackfillsEmail(email, visitor)
                                           THEN email ELSE NONE]]
               /\ UNCHANGED resp

\* visitor.update({ email })
PlayEmailUpdate(r, ok) ==
  /\ req[r].pc = "email"
  /\ Injected(~ok)
  /\ UNCHANGED << fixed, now, rules, sessions, plays, discounts, analytics >>
  /\ IF ok
       THEN /\ visitors' = [visitors EXCEPT ![VisitorOf(r)].email = req[r].email]
            /\ writes' = [writes EXCEPT ![r] = @ \cup {"visitor.email"}]
            /\ req' = [req EXCEPT ![r].pc = "count", ![r].email = NONE]
            /\ UNCHANGED resp
       ELSE /\ Throw(r, "store error")
            /\ UNCHANGED << visitors, writes >>

\* What nanoid returns matters only up to equality with the suffixes drawn
\* before: one of those, or the first one not yet drawn.
UsedSuffixes ==
  ({ d.code.random : d \in discounts } \cup { req[r].code.random : r \in Requests }) \ {0}

NanoChoices ==
  { n \in 1..NumSuffix :
      n \in UsedSuffixes \/ \A m \in 1..(n - 1) : m \in UsedSuffixes }

\* The cooldown check, then the draw of the outcome, of the code and of its
\* expiry.
PlayCooldownCheck(r, random) ==
  /\ req[r].pc = "count"
  /\ UNCHANGED << fixed, now, rules, visitors, sessions, plays, discounts, analytics, writes, faults >>
  /\ LET rule == RuleOf(r)
         game == GameOf(r)
         cooldownStart == now - rule.cooldownHours
         recentPlays == CountPlays(VisitorOf(r), game.id, cooldownStart)
         winning == weightedRandom(game.segments, random)
     IN
     IF LimitReached(recentPlays, rule)
       THEN Respond(r, 429, "Play limit reached")
     ELSE IF winning = 0
       THEN Respond(r, 500, "No segments configured")
     ELSE LET winningSegment == game.segments[winning]
          IN
          /\ random \in RandomDraws(game.segments)
          /\ UNCHANGED resp
          /\ IF winningSegment.type # "NO_PRIZE"
               THEN \E nano \in NanoChoices :
                      req' = [req EXCEPT
                                ![r].pc = "shopify",
                                ![r].seg = winningSegment.id,
                                ![r].code = generateDiscountCode(CodePrefix(winningSegment), nano),
                                ![r].expiresAt = addDays(now, rule.validityDays)]
               ELSE req' = [req EXCEPT ![r].pc = "play", ![r].seg = winningSegment.id]

\* createDiscountCode throws before any request when neither a percentage nor
\* a fixed amount (nor free shipping) is given: a value of 0 is falsy.
CreateDiscountCodeThrows(winningSegment) ==
  /\ winningSegment.type # "FREE_SHIPPING"
  /\ winningSegment.value = 0

\* The call of the commerce platform.  answer: "id" (the discount was
\* created), "userErrors" (a 2xx answer without a discount node), "error"
\* (fetch rejects or the answer is not 2xx: query throws).
ShopifyAnswers == {"id", "userErrors", "error"}

QueryThrows_Never(answer) == FALSE

\* query: fetch rejects, or `if (!response.ok) throw`
QueryThrows(answer) == answer = "error"

ShopifyDiscountId_Always(answer) == "gid"

\* data?.discountCodeBasicCreate?.codeDiscountNode?.id || ... || null
ShopifyDiscountId(answer) == IF answer = "id" THEN "gid" ELSE NONE

ShopifyCall(r, answer) ==
  /\ req[r].pc = "shopify"
  /\ Injected(answer = "error")
  /\ UNCHANGED << fixed, now, rules, visitors, sessions, plays, discounts, analytics, writes >>
  /\ IF CreateDiscountCodeThrows(Segment(req[r].seg))
       THEN Throw(r, "Either percentage or fixedAmount must be provided")
     ELSE IF QueryThrows(answer)
       THEN Throw(r, "Shopify API error")
     ELSE /\ req' = [req EXCEPT ![r].pc = "discount",
                                ![r].shopifyId = ShopifyDiscountId(answer)]
          /\ UNCHANGED resp

CodeTaken_Never(shopId, code) == FALSE

\* discount.create; (shopId, code) is unique
CodeTaken(shopId, code) ==
  \E d \in discounts : d.shopId = shopId /\ d.code = code

DiscountCreate(r, ok) ==
  /\ req[r].pc = "discount"
  /\ Injected(~ok)
  /\ UNCHANGED << fixed, now, rules, visitors, sessions, plays, analytics >>
  /\ LET shopId == visitors[VisitorOf(r)].shopId
         winningSegment == Segment(req[r].seg)
     IN
     IF ok /\ ~CodeTaken(shopId, req[r].code)   \* a taken code violates the constraint
       THEN /\ discounts' = discounts \cup
                 { [id |-> r, shopId |-> shopId, visitorId |-> VisitorOf(r),
                    ruleId |-> RuleOf(r).id, code |-> req[r].code,
                    shopifyId |-> req[r].shopifyId, type |-> winningSegment.type,
                    value |-> winningSegment.value,
                    createdAt |-> now,
                    expiresAt |-> req[r].expiresAt,
                    status |-> "CREATED", usedAt |-> NoDate] }
            /\ writes' = [writes EXCEPT ![r] = @ \cup {"discount"}]
            /\ req' = [req EXCEPT ![r].pc = "play", ![r].discountId = r]
            /\ UNCHANGED resp
       ELSE /\ Throw(r, "store error")
            /\ UNCHANGED << discounts, writes >>

\* result: isWin ? 'WIN' : 'LOSE'
PlayResult(winningSegment) ==
  IF winningSegment.type # "NO_PRIZE" THEN "WIN" ELSE "LOSE"

PlayDiscountId_Null(r) == 0

\* discountId: discount?.id
PlayDiscountId(r) == req[r].discountId

\* play.create
PlayCreate(r, ok) ==
  /\ req[r].pc = "play"
  /\ Injected(~ok)
  /\ UNCHANGED << fixed, now, rules, visitors, sessions, discounts, analytics >>
  /\ IF ok
       THEN /\ plays' = plays \cup
                 { [id |-> r, gameId |-> req[r].gameId, visitorId |-> VisitorOf(r),
                    result |-> PlayResult(Segment(req[r].seg)),
                    segmentId |-> req[r].seg, discountId |-> PlayDiscountId(r),
                    playedAt |-> now] }
            /\ writes' = [writes EXCEPT ![r] = @ \cup {"play"}]
            /\ req' = [req EXCEPT ![r].pc = "visitor"]
            /\ UNCHANGED resp
       ELSE /\ Throw(r, "store error")
            /\ UNCHANGED << plays, writes >>

VisitorStats_AlwaysWin(visitor, win) ==
  [visitor EXCEPT !.totalPlays = @ + 1, !.totalWins = @ + 1]

\* totalPlays: { increment: 1 }, totalWins: isWin ? { increment: 1 } : undefined
VisitorStats(visitor, win) ==
  [visitor EXCEPT !.totalPlays = @ + 1, !.totalWins = IF win THEN @ + 1 ELSE @]

\* visitor.update
VisitorUpdate(r, ok) ==
  /\ req[r].pc = "visitor"
  /\ Injected(~ok)
  /\ UNCHANGED << fixed, now, rules, sessions, plays, discounts, analytics >>
  /\ IF ok
       THEN /\ visitors' = [visitors EXCEPT ![VisitorOf(r)] = VisitorStats(@, isWin(r))]
            /\ writes' = [writes EXCEPT ![r] = @ \cup {"visitor.stats"}]
            /\ req' = [req EXCEPT ![r].pc = "session"]
            /\ UNCHANGED resp
       ELSE /\ Throw(r, "store error")
            /\ UNCHANGED << visitors, writes >>

\* session.update({ lastActivityAt })
SessionUpdate(r, ok) ==
  /\ req[r].pc = "session"
  /\ Injected(~ok)
  /\ UNCHANGED << fixed, now, rules, visitors, plays, discounts, analytics >>
  /\ IF ok
       THEN /\ sessions' = [sessions EXCEPT ![req[r].token].lastActivityAt = now]
            /\ writes' = [writes EXCEPT ![r] = @ \cup {"session"}]
            /\ req' = [req EXCEPT ![r].pc = "analytics"]
            /\ UNCHANGED resp
       ELSE /\ Throw(r, "store error")
            /\ UNCHANGED << sessions, writes >>

\* analytics.upsert keyed by (shop, game, today), then the answer
AnalyticsRow(gameId, date) ==
  { a \in analytics : a.gameId = gameId /\ a.date = date }

Increment_Set(a, wins) == [a EXCEPT !.plays = 1, !.wins = wins]

\* update: { plays: { increment: 1 }, wins: { increment: isWin ? 1 : 0 } }
Increment(a, wins) == [a EXCEPT !.plays = @ + 1, !.wins = @ + wins]

AnalyticsUpsert(r, ok) ==
  /\ req[r].pc = "analytics"
  /\ Injected(~ok)
  /\ UNCHANGED << fixed, now, rules, visitors, sessions, plays, discounts >>
  /\ LET today == StartOfDay(now)
         old == AnalyticsRow(req[r].gameId, today)
         wins == IF isWin(r) THEN 1 ELSE 0
     IN
     IF ok
       THEN /\ analytics' =
                 IF old = {}
                   THEN analytics \cup { [gameId |-> req[r].gameId, date |-> today,
                                          plays |-> 1, wins |-> wins, redemptions |-> 0] }
                   ELSE (analytics \ old) \cup
                          { Increment(a, wins) : a \in old }
            /\ writes' = [writes EXCEPT ![r] = @ \cup {"analytics"}]
            /\ req' = [req EXCEPT ![r] = DoneReq(req[r], req[r].op)]
            /\ resp' = [resp EXCEPT ![r] =
                          [NoResp EXCEPT !.status = 200, !.playId = r,
                                         !.result = IF isWin(r) THEN "WIN" ELSE "LOSE",
                                         !.code = IF isWin(r) THEN req[r].code ELSE NoCode]]
       ELSE /\ Throw(r, "store error")
            /\ UNCHANGED << analytics, writes >>

\* --------------------------------------------------------- POST /track
\* Validation and the read of the session.
TrackStart(r, sessionToken, event, page) ==
  /\ req[r].pc = "idle"
  /\ \A q \in Requests : q < r => req[q].pc # "idle"
  /\ UNCHANGED << fixed, now, rules, visitors, sessions, plays, discounts, analytics, writes, faults >>
  /\ IF sessionToken = NONE \/ event = NONE
       THEN Answer(r, "track", 400, "Missing required fields")
     ELSE IF sessionToken \notin DOMAIN sessions
       THEN Answer(r, "track", 401, "Invalid session")
     ELSE /\ req' = [req EXCEPT ![r] = [IdleReq EXCEPT !.pc = "trackUpdate", !.op = "track",
                                                       !.token = sessionToken, !.page = page]]
          /\ UNCHANGED resp

\* session.update({ lastActivityAt, currentPage }), then the answer
TrackUpdate(r, ok) ==
  /\ req[r].pc = "trackUpdate"
  /\ Injected(~ok)
  /\ UNCHANGED << fixed, now, rules, visitors, plays, discounts, analytics >>
  /\ IF ok
       THEN /\ sessions' = [sessions EXCEPT
                              ![req[r].token].lastActivityAt = now,
                              ![req[r].token].currentPage =
                                 IF req[r].page # NONE THEN req[r].page ELSE @]
            /\ writes' = [writes EXCEPT ![r] = @ \cup {"session"}]
            /\ Answer(r, "track", 200, NONE)
       ELSE /\ Throw(r, "store error")
            /\ UNCHANGED << sessions, writes >>

\* --------------------------------------------------------- POST /init
\* generateFingerprint(userAgent, acceptLanguage, ip): a hash of the headers
GeneratedFingerprint == "fh"

\* visitor.findUnique({ shopId_fingerprint })
FindVisitor(shopId, fingerprint) ==
  { v \in DOMAIN visitors :
      visitors[v].shopId = shopId /\ visitors[v].fingerprint = fingerprint }

\* the id the store gives the Visitor that request r creates
NewVisitorId(r) == << "n1", "n2", "n3" >>[r]

\* the tokens `sess_${nanoid(24)}` may give: one in use, or the next fresh one
NewTokens == << "k1", "k2", "k3" >>

TokenChoices ==
  DOMAIN sessions \cup
    { NewTokens[i] : i \in { j \in 1..Len(NewTokens) :
                               /\ NewTokens[j] \notin DOMAIN sessions
                               /\ \A m \in 1..(j - 1) : NewTokens[m] \in DOMAIN sessions } }

\* Validation, the shop lookup and the visitor lookup.
InitStart(r, shopDomain, fingerprint, page, utmSource) ==
  /\ req[r].pc = "idle"
  /\ \A q \in Requests : q < r => req[q].pc # "idle"
  /\ UNCHANGED << fixed, now, rules, visitors, sessions, plays, discounts, analytics, writes, faults >>
  /\ IF shopDomain = NONE
       THEN Answer(r, "init", 400, "Missing shop domain")
     ELSE IF shopDomain \notin DOMAIN shops \/ ~shops[shopDomain].isActive
       THEN Answer(r, "init", 404, "Shop not found")
     ELSE LET shopId == shops[shopDomain].id
              fp == IF fingerprint # NONE THEN fingerprint ELSE GeneratedFingerprint
              found == FindVisitor(shopId, fp)
          IN
          /\ req' = [req EXCEPT ![r] =
                       [IdleReq EXCEPT
                          !.op = "init",
                          !.pc = "initVisitor",
                          !.shopId = shopId,
                          !.fingerprint = fp,
                          !.page = page,
                          !.utmSource = utmSource,
                          !.visitorId = IF found = {} THEN NONE ELSE CHOOSE v \in found : TRUE,
                          !.email = IF found = {} THEN NONE
                                    ELSE visitors[CHOOSE v \in found : TRUE].email,
                          !.isNewVisitor = found = {}]]
          /\ UNCHANGED resp

\* visitor.create for an unseen fingerprint ((shopId, fingerprint) is unique),
\* visitor.update({ lastVisit }) otherwise
InitVisitor(r, ok) ==
  /\ req[r].pc = "initVisitor"
  /\ Injected(~ok)
  /\ UNCHANGED << fixed, now, rules, sessions, plays, discounts, analytics >>
  /\ IF ~ok
       THEN /\ Throw(r, "store error")
            /\ UNCHANGED << visitors, writes >>
     ELSE IF req[r].isNewVisitor
       THEN IF FindVisitor(req[r].shopId, req[r].fingerprint) # {}
              THEN /\ Throw(r, "Unique constraint failed on (shopId, fingerprint)")
                   /\ UNCHANGED << visitors, writes >>
              ELSE /\ visitors' =
                        [v \in DOMAIN visitors \cup {NewVisitorId(r)} |->
                           IF v = NewVisitorId(r)
                             THEN [shopId |-> req[r].shopId, fingerprint |-> req[r].fingerprint,
                                   email |-> NONE, customerId |-> NONE, lastVisit |-> now,
                                   totalPlays |-> 0, totalWins |-> 0]
                             ELSE visitors[v]]
                   /\ writes' = [writes EXCEPT ![r] = @ \cup {"visitor.create"}]
                   /\ req' = [req EXCEPT ![r].pc = "initSession",
                                         ![r].visitorId = NewVisitorId(r)]
                   /\ UNCHANGED resp
     ELSE /\ visitors' = [visitors EXCEPT ![req[r].visitorId].lastVisit = now]
          /\ writes' = [writes EXCEPT ![r] = @ \cup {"visitor.lastVisit"}]
          /\ req' = [req EXCEPT ![r].pc = "initSession"]
          /\ UNCHANGED resp

TokenTaken_Never(sessionToken) == FALSE

\* a token in use violates the unique key of Session
TokenTaken(sessionToken) == sessionToken \in DOMAIN sessions

\* session.create({ visitorId, token, currentPage })
InitSession(r, sessionToken, ok) ==
  /\ req[r].pc = "initSession"
  /\ Injected(~ok)
  /\ UNCHANGED << fixed, now, rules, visitors, plays, discounts, analytics >>
  /\ IF ~ok
       THEN /\ Throw(r, "store error")
            /\ UNCHANGED << sessions, writes >>
     ELSE IF TokenTaken(sessionToken)
       THEN /\ Throw(r, "Unique constraint failed on (token)")
            /\ UNCHANGED << sessions, writes >>
     ELSE /\ sessions' =
               [t \in DOMAIN sessions \cup {sessionToken} |->
                  IF t = sessionToken
                    THEN [visitorId |-> req[r].visitorId, isActive |-> TRUE,
                          lastActivityAt |-> now,
                          currentPage |-> req[r].page]
                    ELSE sessions[t]]
          /\ writes' = [writes EXCEPT ![r] = @ \cup {"session.create"}]
          /\ req' = [req EXCEPT ![r].pc = "initCount", ![r].token = sessionToken]
          /\ UNCHANGED resp

\* startDate null or <= now, and endDate null or >= now
InWindow(game) ==
  /\ game.startDate = NoDate \/ game.startDate <= now
  /\ game.endDate = NoDate \/ game.endDate >= now

\* game.findFirst({ shopId, isActive: true, date window }): the rows that match
ActiveGames(shopId) ==
  { g \in games : g.shopId = shopId /\ g.isActive /\ InWindow(g) }

\* the page type a targeting rule is matched against
PageType(page) ==
  IF page = "/products/p" THEN "product"
  ELSE IF page = "/collections/c" THEN "collection"
  ELSE IF page = "/" THEN "index"
  ELSE IF page = "/cart" THEN "cart"
  ELSE "page"

TargetingMatches_AnyVisitor(rule, page, isNewVisitor, email, utmSource) ==
  /\ rule.pageType # {} => PageType(page) \in rule.pageType
  /\ (rule.utmSource # {} /\ utmSource # NONE) => utmSource \in rule.utmSource

\* The predicates of one targeting rule; an empty pageType list and the
\* visitor type ALL match every visit.  The rules have no device or traffic
\* source list and no schedule.
TargetingMatches(rule, page, isNewVisitor, email, utmSource) ==
  /\ rule.pageType # {} => PageType(page) \in rule.pageType
  /\ rule.visitorType = "NEW" => isNewVisitor
  /\ rule.visitorType = "RETURNING" => ~isNewVisitor
  /\ rule.visitorType = "LOGGED_IN" => email # NONE
  /\ rule.visitorType = "NOT_LOGGED_IN" => email = NONE
  /\ (rule.utmSource # {} /\ utmSource # NONE) => utmSource \in rule.utmSource

PriorityOrder_Asc(first, second) == first.priority <= second.priority

\* orderBy: { priority: 'desc' }
PriorityOrder(first, second) == first.priority >= second.priority

\* targetingRule.findMany({ shopId, isActive }, priority desc): the lists the
\* query may return; rules of equal priority come in either order
TargetingRules(shopId) ==
  LET found == { t \in targeting : t.shopId = shopId /\ t.isActive }
  IN  { list \in [1..Cardinality(found) -> found] :
          /\ \A i, j \in 1..Cardinality(found) : i # j => list[i] # list[j]
          /\ \A i, j \in 1..Cardinality(found) : i < j => PriorityOrder(list[i], list[j]) }

\* the loop over the rules from the i-th on: the game of the first that matches
RECURSIVE FirstMatch(_, _, _, _, _, _)
FirstMatch(targetingRules, i, page, isNewVisitor, email, utmSource) ==
  IF i > Len(targetingRules)
    THEN NONE
    ELSE IF TargetingMatches(targetingRules[i], page, isNewVisitor, email, utmSource)
      THEN targetingRules[i].gameId
      ELSE FirstMatch(targetingRules, i + 1, page, isNewVisitor, email, utmSource)

TargetedGameId(targetingRules, page, isNewVisitor, email, utmSource) ==
  FirstMatch(targetingRules, 1, page, isNewVisitor, email, utmSource)

\* the Game offered: the targeted one when it differs from the default and is
\* found by game.findFirst({ id, shopId, isActive: true })
OfferedGame(activeGame, targetedGameId, shopId) ==
  IF /\ targetedGameId # NONE
     /\ activeGame # targetedGameId
     /\ FindGame(targetedGameId, shopId) # {}
    THEN targetedGameId
    ELSE activeGame

\* the targeting evaluation and the answer of init
InitAnswer(r, activeGame, canPlay, cooldownRemaining) ==
  \E targetingRules \in TargetingRules(req[r].shopId) :
  LET targetedGameId ==
        TargetedGameId(targetingRules, req[r].page, req[r].isNewVisitor, req[r].email,
                       req[r].utmSource)
  IN
  /\ req' = [req EXCEPT ![r] = DoneReq(req[r], "init")]
  /\ resp' = [resp EXCEPT ![r] =
                [NoResp EXCEPT
                   !.status = 200,
                   !.sessionToken = req[r].token,
                   !.visitorId = req[r].visitorId,
                   !.isNewVisitor = req[r].isNewVisitor,
                   !.canPlay = canPlay,
                   !.cooldownRemaining = cooldownRemaining,
                   !.activeGame = OfferedGame(activeGame, targetedGameId, req[r].shopId)]]

\* canPlay = recentPlays < rule.maxPlaysPerVisitor
CanPlay(recentPlays, rule) ==
  recentPlays < rule.maxPlaysPerVisitor

\* The default Game, its rule and the count of the recent plays.  activeGame
\* is the id of the row game.findFirst returns, NONE when no row matches.
InitCount(r, activeGame) ==
  /\ req[r].pc = "initCount"
  /\ IF ActiveGames(req[r].shopId) = {}
       THEN activeGame = NONE
       ELSE activeGame \in { g.id : g \in ActiveGames(req[r].shopId) }
  /\ UNCHANGED << fixed, now, rules, visitors, sessions, plays, discounts, analytics, writes, faults >>
  /\ IF activeGame = NONE \/ FindRule(activeGame, req[r].shopId) = 0
       THEN InitAnswer(r, activeGame, FALSE, 0)
     ELSE LET rule == rules[FindRule(activeGame, req[r].shopId)]
              cooldownStart == now - rule.cooldownHours
              recentPlays == CountPlays(req[r].visitorId, activeGame, cooldownStart)
          IN  IF ~CanPlay(recentPlays, rule) /\ recentPlays > 0
                THEN /\ req' = [req EXCEPT ![r].pc = "initLastPlay", ![r].gameId = activeGame]
                     /\ UNCHANGED resp
                ELSE InitAnswer(r, activeGame, CanPlay(recentPlays, rule), 0)

\* play.findFirst({ visitorId, gameId }, playedAt desc)
LastPlay(visitorId, gameId) ==
  { p \in plays :
      /\ p.visitorId = visitorId
      /\ p.gameId = gameId
      /\ \A q \in plays : (q.visitorId = visitorId /\ q.gameId = gameId) => q.playedAt <= p.playedAt }

Max(a, b) == IF a >= b THEN a ELSE b

\* Math.max(0, lastPlay.playedAt + cooldownHours - now)
CooldownRemaining(lastPlay, rule) ==
  Max(0, lastPlay.playedAt + rule.cooldownHours - now)

\* The last play and the remaining cooldown, then the answer.
InitLastPlay(r) ==
  /\ req[r].pc = "initLastPlay"
  /\ UNCHANGED << fixed, now, rules, visitors, sessions, plays, discounts, analytics, writes, faults >>
  /\ LET rule == rules[FindRule(req[r].gameId, req[r].shopId)]
         last == LastPlay(req[r].visitorId, req[r].gameId)
     IN  IF last = {}
           THEN InitAnswer(r, req[r].gameId, FALSE, 0)
           ELSE InitAnswer(r, req[r].gameId, FALSE,
                           CooldownRemaining(CHOOSE p \in last : TRUE, rule))

\* --------------------------------------------------------- POST /claim
\* emailRegex.test(email): something@something.something without blanks
WellFormedEmails == {"b@x.io"}
emailRegex(email) == email \in WellFormedEmails

\* Validation and session.findUnique({ token }).  A discountId of 0 stands
\* for a missing one.
ClaimStart(r, sessionToken, discountId, email) ==
  /\ req[r].pc = "idle"
  /\ \A q \in Requests : q < r => req[q].pc # "idle"
  /\ UNCHANGED << fixed, now, rules, visitors, sessions, plays, discounts, analytics, writes, faults >>
  /\ IF sessionToken = NONE \/ discountId = 0 \/ email = NONE
       THEN Answer(r, "claim", 400, "Missing required fields")
     ELSE IF ~emailRegex(email)
       THEN Answer(r, "claim", 400, "Invalid email format")
     ELSE IF ~SessionValid(sessionToken)
       THEN Answer(r, "claim", 401, "Invalid session")
     ELSE /\ req' = [req EXCEPT ![r] =
                       [IdleReq EXCEPT !.op = "claim", !.pc = "claimDiscount",
                                       !.token = sessionToken,
                                       !.visitorId = sessions[sessionToken].visitorId,
                                       !.discountId = discountId,
                                       !.email = email]]
          /\ UNCHANGED resp

OwnedBy_Anyone(discount, visitorId) == TRUE

\* discount.visitorId !== session.visitorId
OwnedBy(discount, visitorId) == discount.visitorId = visitorId

\* discount.findUnique({ id }) and the ownership test
ClaimDiscount(r) ==
  /\ req[r].pc = "claimDiscount"
  /\ UNCHANGED << fixed, now, rules, visitors, sessions, plays, discounts, analytics, writes, faults >>
  /\ LET found == { d \in discounts : d.id = req[r].discountId }
     IN
     IF found = {}
       THEN Answer(r, "claim", 404, "Discount not found")
     ELSE IF ~OwnedBy(CHOOSE d \in found : TRUE, req[r].visitorId)
       THEN Answer(r, "claim", 403, "Unauthorized")
     ELSE /\ req' = [req EXCEPT ![r].pc = "claimUpdate"]
          /\ UNCHANGED resp

\* visitor.update({ email }), then the answer
ClaimUpdate(r, ok) ==
  /\ req[r].pc = "claimUpdate"
  /\ Injected(~ok)
  /\ UNCHANGED << fixed, now, rules, sessions, plays, discounts, analytics >>
  /\ IF ok
       THEN /\ visitors' = [visitors EXCEPT ![req[r].visitorId].email = req[r].email]
            /\ writes' = [writes EXCEPT ![r] = @ \cup {"visitor.email"}]
            /\ req' = [req EXCEPT ![r] = DoneReq(req[r], "claim")]
            /\ resp' = [resp EXCEPT ![r] =
                          [NoResp EXCEPT
                             !.status = 200,
                             !.code = (CHOOSE d \in discounts : d.id = req[r].discountId).code]]
       ELSE /\ Throw(r, "store error")
            /\ UNCHANGED << visitors, writes >>

\* --------------------------------------------------------- POST /verify
\* code.toUpperCase(): the request's code may be typed in either case, the
\* stored codes are in upper case.  NoCode stands for a missing code.
toUpperCase(code) == [prefix |-> code.prefix, value |-> code.value, random |-> code.random]

\* discount.findFirst({ code, shop: { domain } }); without a shop domain the
\* code is looked up in every shop
FindDiscounts(code, shopDomain) ==
  { d \in discounts :
      /\ d.code = toUpperCase(code)
      /\ shopDomain # NONE =>
           \E domain \in DOMAIN shops : domain = shopDomain /\ shops[domain].id = d.shopId }

VerifyAnswer_Consumes(r, valid, reason) ==
  /\ req' = [req EXCEPT ![r] = DoneReq(req[r], "verify")]
  /\ resp' = [resp EXCEPT ![r] = [NoResp EXCEPT !.status = 200, !.valid = valid,
                                                !.reason = reason]]
  /\ discounts' = IF valid THEN { [d EXCEPT !.status = "USED"] : d \in discounts }
                           ELSE discounts

\* res.json({ valid, reason }): the Discount is left as it was read
VerifyAnswer(r, valid, reason) ==
  /\ req' = [req EXCEPT ![r] = DoneReq(req[r], "verify")]
  /\ resp' = [resp EXCEPT ![r] = [NoResp EXCEPT !.status = 200, !.valid = valid,
                                                !.reason = reason]]
  /\ UNCHANGED discounts

Expired_AtExpiry(discount) ==
  discount.status = "EXPIRED" \/ now >= discount.expiresAt

\* discount.status === 'EXPIRED' || new Date() > discount.expiresAt
Expired(discount) ==
  discount.status = "EXPIRED" \/ now > discount.expiresAt

\* the whole handler: one read, no write
Verify(r, code, shopDomain) ==
  /\ req[r].pc = "idle"
  /\ \A q \in Requests : q < r => req[q].pc # "idle"
  /\ UNCHANGED << fixed, now, rules, visitors, sessions, plays, analytics, writes, faults >>
  /\ IF toUpperCase(code) = NoCode
       THEN Answer(r, "verify", 400, "Missing discount code") /\ UNCHANGED discounts
     ELSE IF FindDiscounts(code, shopDomain) = {}
       THEN VerifyAnswer(r, FALSE, "Code not found")
     ELSE \E discount \in FindDiscounts(code, shopDomain) :
            IF discount.status = "USED"
              THEN VerifyAnswer(r, FALSE, "Code already used")
            ELSE IF Expired(discount)
              THEN VerifyAnswer(r, FALSE, "Code expired")
            ELSE VerifyAnswer(r, TRUE, NONE)

\* --------------------------------------------------------- POST /status
\* Validation and session.findUnique({ token }, include visitor): the active
\* flag of the session is reported, not tested.
StatusStart(r, sessionToken) ==
  /\ req[r].pc = "idle"
  /\ \A q \in Requests : q < r => req[q].pc # "idle"
  /\ UNCHANGED << fixed, now, rules, visitors, sessions, plays, discounts, analytics, writes, faults >>
  /\ IF sessionToken = NONE
       THEN Answer(r, "status", 400, "Missing session token")
     ELSE IF sessionToken \notin DOMAIN sessions
       THEN Answer(r, "status", 404, "Session not found")
     ELSE /\ req' = [req EXCEPT ![r] =
                       [IdleReq EXCEPT !.op = "status", !.pc = "statusCount",
                                       !.token = sessionToken,
                                       !.visitorId = sessions[sessionToken].visitorId,
                                       !.shopId = visitors[sessions[sessionToken].visitorId].shopId,
                                       !.sessionActive = sessions[sessionToken].isActive]]
          /\ UNCHANGED resp

\* game.findFirst({ shopId, isActive }): no date window, no order
StatusGames(shopId) == { g \in games : g.shopId = shopId /\ g.isActive }

\* discountRule.findFirst({ shopId, isActive, OR [gameId, null] }): no order
StatusRules(gameId, shopId) == { i \in 1..Len(rules) : RuleMatches(i, gameId, shopId) }

\* The reads of the game, the rule and the plays, then the answer;
\* `activeGame` and `rule` are the rows the two findFirst return.
StatusCount(r, activeGame, rule) ==
  /\ req[r].pc = "statusCount"
  /\ UNCHANGED << fixed, now, rules, visitors, sessions, plays, discounts, analytics, writes, faults >>
  /\ IF StatusGames(req[r].shopId) = {}
       THEN activeGame = NONE /\ rule = 0
       ELSE /\ activeGame \in { g.id : g \in StatusGames(req[r].shopId) }
            /\ IF StatusRules(activeGame, req[r].shopId) = {}
                 THEN rule = 0
                 ELSE rule \in StatusRules(activeGame, req[r].shopId)
  /\ req' = [req EXCEPT ![r] = DoneReq(req[r], "status")]
  /\ resp' = [resp EXCEPT ![r] =
                [NoResp EXCEPT
                   !.status = 200,
                   !.sessionActive = req[r].sessionActive,
                   !.visitorId = req[r].visitorId,
                   !.activeGame = activeGame,
                   !.canPlay =
                      /\ rule # 0
                      /\ CountPlays(req[r].visitorId, activeGame, now - rules[rule].cooldownHours)
                           < rules[rule].maxPlaysPerVisitor]]

\* ------------------------------------------------------------- the clock
Tick ==
  /\ now < MaxTime
  /\ now' = now + TickHours
  /\ UNCHANGED << fixed, rules, visitors, sessions, plays, discounts, analytics, req, resp,
                  writes, faults >>

\* ------------------------------------- POST /webhooks/app/uninstalled
\* shop.update({ domain }, { isActive: false }) of a delivery with a verified
\* signature that names a shop of the store
Uninstall(shopDomain) ==
  /\ shopDomain \in DOMAIN shops
  /\ shops' = [shops EXCEPT ![shopDomain].isActive = FALSE]
  /\ UNCHANGED << games, targeting, resolverItems, resolverResult, orders, now, rules, visitors,
                  sessions, plays, discounts, analytics, req, resp, writes, faults >>

\* ------------------------------------------- POST /webhooks/orders/paid
\* The deliveries modelled carry a verified signature; the shop has no loyalty
\* program, so the handler ends after the loop over the order's codes.
\* Validation and shop.findUnique({ domain }): the shop's active flag is not
\* tested.
OrderStart(o, shopDomain, codes, customer) ==
  /\ orders[o].pc = "idle"
  /\ \A q \in Orders : q < o => orders[q].pc # "idle"
  /\ UNCHANGED << shops, games, targeting, resolverItems, resolverResult, now, rules, visitors,
                  sessions, plays, discounts, analytics, req, resp, writes, faults >>
  /\ IF shopDomain = NONE
       THEN orders' = [orders EXCEPT ![o] = [IdleOrder EXCEPT !.pc = "done", !.status = 400]]
     ELSE IF shopDomain \notin DOMAIN shops
       THEN orders' = [orders EXCEPT ![o] = [IdleOrder EXCEPT !.pc = "done", !.status = 404]]
     ELSE orders' = [orders EXCEPT ![o] =
                       [IdleOrder EXCEPT !.pc = "orderFind", !.shopId = shops[shopDomain].id,
                                         !.codes = codes, !.customer = customer]]

\* discount.findUnique({ shopId_code }, include visitor) for the next code of
\* the order; after the last code the answer
OrderFind(o) ==
  /\ orders[o].pc = "orderFind"
  /\ UNCHANGED << shops, games, targeting, resolverItems, resolverResult, now, rules, visitors,
                  sessions, plays, discounts, analytics, req, resp, writes, faults >>
  /\ IF orders[o].codes = << >>
       THEN orders' = [orders EXCEPT ![o].pc = "done", ![o].status = 200]
     ELSE LET found == { d \in discounts :
                           d.shopId = orders[o].shopId /\ d.code = Head(orders[o].codes) }
          IN  IF \E d \in found : d.status = "CREATED"
                THEN \E d \in found :
                       /\ d.status = "CREATED"
                       /\ orders' = [orders EXCEPT
                                       ![o].pc = "orderUse",
                                       ![o].discountId = d.id,
                                       ![o].visitorId = d.visitorId,
                                       ![o].customerId = visitors[d.visitorId].customerId,
                                       ![o].email = visitors[d.visitorId].email]
                ELSE orders' = [orders EXCEPT ![o].codes = Tail(@)]

\* the catch block: the error is logged, the answer is a 500
OrderThrow(o) ==
  orders' = [orders EXCEPT ![o].pc = "done", ![o].status = 500]

UsedBy_Shop(d, o) == d.shopId = orders[o].shopId

\* where: { id: discount.id }
UsedBy(d, o) == d.id = orders[o].discountId

\* discount.update({ id }, { status: 'USED', usedAt })
OrderUse(o, ok) ==
  /\ orders[o].pc = "orderUse"
  /\ Injected(~ok)
  /\ UNCHANGED << shops, games, targeting, resolverItems, resolverResult, now, rules, visitors,
                  sessions, plays, analytics, req, resp, writes >>
  /\ IF ok
       THEN /\ discounts' =
                 { IF UsedBy(d, o)
                     THEN [d EXCEPT !.status = "USED", !.usedAt = now]
                     ELSE d : d \in discounts }
            /\ orders' = [orders EXCEPT
                            ![o].pc = IF orders[o].customer.present /\ orders[o].customerId = NONE
                                        THEN "orderVisitor" ELSE "orderAnalytics"]
       ELSE /\ OrderThrow(o)
            /\ UNCHANGED discounts

\* `gid://shopify/Customer/${order.customer.id}`
CustomerGid == "gid"

\* visitor.update({ customerId, email: order.customer.email || visitor.email })
OrderVisitor(o, ok) ==
  /\ orders[o].pc = "orderVisitor"
  /\ Injected(~ok)
  /\ UNCHANGED << shops, games, targeting, resolverItems, resolverResult, now, rules,
                  sessions, plays, discounts, analytics, req, resp, writes >>
  /\ IF ok
       THEN /\ visitors' = [visitors EXCEPT
                              ![orders[o].visitorId].customerId = CustomerGid,
                              ![orders[o].visitorId].email =
                                 IF orders[o].customer.email # NONE
                                   THEN orders[o].customer.email ELSE orders[o].email]
            /\ orders' = [orders EXCEPT ![o].pc = "orderAnalytics"]
       ELSE /\ OrderThrow(o)
            /\ UNCHANGED visitors

\* analytics.upsert keyed by (shop, null, today): the shop's global row
OrderAnalytics(o, ok) ==
  /\ orders[o].pc = "orderAnalytics"
  /\ Injected(~ok)
  /\ UNCHANGED << shops, games, targeting, resolverItems, resolverResult, now, rules, visitors,
                  sessions, plays, discounts, req, resp, writes >>
  /\ LET today == StartOfDay(now)
         old == AnalyticsRow(NONE, today)
     IN
     IF ok
       THEN /\ analytics' =
                 IF old = {}
                   THEN analytics \cup { [gameId |-> NONE, date |-> today,
                                          plays |-> 0, wins |-> 0, redemptions |-> 1] }
                   ELSE (analytics \ old) \cup
                          { [a EXCEPT !.redemptions = @ + 1] : a \in old }
            /\ orders' = [orders EXCEPT ![o].pc = "orderFind", ![o].codes = Tail(@)]
       ELSE /\ OrderThrow(o)
            /\ UNCHANGED analytics

\* a day passes
TickDay ==
  /\ now < MaxDay
  /\ now' = now + HoursPerDay
  /\ UNCHANGED << fixed, rules, visitors, sessions, plays, discounts, analytics, req, resp,
                  writes, faults >>

\* ------------------------------------------------------ the request inputs
TokenInputs == Tokens \cup {"tx", NONE}
GameInputs == { g.id : g \in games } \cup {"gx", NONE}
EmailInputs == {"a@x", NONE}
EventInputs == {"view", NONE}
PageInputs == {"/cart", NONE}
AllDraws == UNION { RandomDraws(g.segments) : g \in AllGames }

Next ==
  \/ \E r \in Requests, t \in TokenInputs, g \in GameInputs, e \in EmailInputs :
       PlayStart(r, t, g, e)
  \/ \E r \in Requests, ok \in BOOLEAN : PlayEmailUpdate(r, ok)
  \/ \E r \in Requests, random \in AllDraws : PlayCooldownCheck(r, random)
  \/ \E r \in Requests, answer \in ShopifyAnswers : ShopifyCall(r, answer)
  \/ \E r \in Requests, ok \in BOOLEAN : DiscountCreate(r, ok)
  \/ \E r \in Requests, ok \in BOOLEAN : PlayCreate(r, ok)
  \/ \E r \in Requests, ok \in BOOLEAN : VisitorUpdate(r, ok)
  \/ \E r \in Requests, ok \in BOOLEAN : SessionUpdate(r, ok)
  \/ \E r \in Requests, ok \in BOOLEAN : AnalyticsUpsert(r, ok)
  \/ \E r \in Requests, t \in TokenInputs, event \in EventInputs, page \in PageInputs :
       TrackStart(r, t, event, page)
  \/ \E r \in Requests, ok \in BOOLEAN : TrackUpdate(r, ok)
  \/ Tick

Spec == Init /\ [][Next]_vars

\* Fairness: the server runs every handler step that is enabled, and the store
\* answers every call (with a result or an error).  Nothing obliges the
\* commerce platform to answer, and the handler sets no timer on that call.
HandlerStep(r) ==
  \/ \E ok \in BOOLEAN : PlayEmailUpdate(r, ok)
  \/ \E random \in AllDraws : PlayCooldownCheck(r, random)
  \/ \E ok \in BOOLEAN : DiscountCreate(r, ok)
  \/ \E ok \in BOOLEAN : PlayCreate(r, ok)
  \/ \E ok \in BOOLEAN : VisitorUpdate(r, ok)
  \/ \E ok \in BOOLEAN : SessionUpdate(r, ok)
  \/ \E ok \in BOOLEAN : AnalyticsUpsert(r, ok)
  \/ \E ok \in BOOLEAN : TrackUpdate(r, ok)

FairSpec == Spec /\ \A r \in Requests : WF_vars(HandlerStep(r))

\* ------------------------------------- requests served one after another
\* Discount rules in creation order: up to two rules, each specific to game
\* g1 or shop-wide, active or not.  The older rule allows one play per two
\* hours, the newer one two plays per hour and requires an email.
RuleKinds == { [gameId |-> g, isActive |-> a] : g \in {"g1", NONE}, a \in BOOLEAN }

RuleRow(kind, i) ==
  [id |-> IF i = 1 THEN "r1" ELSE "r2", shopId |-> "s1", gameId |-> kind.gameId,
   isActive |-> kind.isActive, maxPlaysPerVisitor |-> i, cooldownHours |-> 3 - i,
   requireEmail |-> i = 2, validityDays |-> 1]

RuleLists ==
  { << >> } \cup { << RuleRow(k, 1) >> : k \in RuleKinds }
            \cup { << RuleRow(k, 1), RuleRow(l, 2) >> : k, l \in RuleKinds }

\* Targeting rules: none, or one rule that sends every visit to game g2.
TargetingConfigs ==
  { {},
    { [id |-> "tr1", shopId |-> "s1", isActive |-> TRUE, priority |-> 1,
       pageType |-> {}, visitorType |-> "ALL", utmSource |-> {}, gameId |-> "g2"] } }

SeqInit ==
  /\ StoreInit
  /\ games = Games
  /\ rules \in RuleLists
  /\ targeting \in TargetingConfigs
  /\ resolverItems = << >>
  /\ resolverResult = NoSelection

\* no other request is between its first step and its answer
Sequential(r) == \A q \in Requests \ {r} : req[q].pc \in {"idle", "done"}


\* the inputs of the requests served one after another
SeqTokenInputs == {"t1", "tx"}
SeqShopInputs == {"d1", "d0"}
SeqFingerprintInputs == {"f1", "f9"}

SeqNext ==
  \/ \E r \in Requests, t \in SeqTokenInputs, g \in GameInputs, e \in EmailInputs :
       Sequential(r) /\ PlayStart(r, t, g, e)
  \/ \E r \in Requests : PlayEmailUpdate(r, TRUE)
  \/ \E r \in Requests, random \in AllDraws : PlayCooldownCheck(r, random)
  \/ \E r \in Requests : ShopifyCall(r, "id")
  \/ \E r \in Requests : DiscountCreate(r, TRUE)
  \/ \E r \in Requests : PlayCreate(r, TRUE)
  \/ \E r \in Requests : VisitorUpdate(r, TRUE)
  \/ \E r \in Requests : SessionUpdate(r, TRUE)
  \/ \E r \in Requests : AnalyticsUpsert(r, TRUE)
  \/ \E r \in Requests, d \in SeqShopInputs, f \in SeqFingerprintInputs :
       Sequential(r) /\ InitStart(r, d, f, "/", NONE)
  \/ \E r \in Requests : InitVisitor(r, TRUE)
  \/ \E r \in Requests, t \in TokenChoices : InitSession(r, t, TRUE)
  \/ \E r \in Requests, g \in { x.id : x \in games } \cup {NONE} : InitCount(r, g)
  \/ \E r \in Requests : InitLastPlay(r)
  \/ Tick

SeqSpec == SeqInit /\ [][SeqNext]_vars

\* ------------------------------------------- every handler, interleaved
\* The requests of two clients served concurrently, every store write
\* succeeding: init, play, track, claim, status and verify.
SessionInit ==
  /\ StoreInit
  /\ games = PlayGames
  /\ rules = RuleConfig(1, 1, FALSE)
  /\ targeting = {}
  /\ resolverItems = << >>
  /\ resolverResult = NoSelection

SessionTokenInputs == {"t1", "k1", "tx"}
ClaimDiscountInputs == {1, 2}
ClaimEmailInputs == {"b@x.io", "a@x"}
\* a code as the caller typed it, in upper or in lower case
Typed(code, case) ==
  [prefix |-> code.prefix, value |-> code.value, random |-> code.random, case |-> case]

VerifyCodeInputs ==
  { Typed(code, case) :
      code \in { generateDiscountCode(CodePrefix(Segment("sg1")), n) : n \in NanoChoices }
                 \cup {NoCode},
      case \in {"upper", "lower"} }

SessionNext ==
  \/ \E r \in Requests, d \in SeqShopInputs, f \in SeqFingerprintInputs : InitStart(r, d, f, "/", NONE)
  \/ \E r \in Requests : InitVisitor(r, TRUE)
  \/ \E r \in Requests, t \in TokenChoices : InitSession(r, t, TRUE)
  \/ \E r \in Requests, g \in { x.id : x \in games } \cup {NONE} : InitCount(r, g)
  \/ \E r \in Requests : InitLastPlay(r)
  \/ \E r \in Requests, t \in SessionTokenInputs, e \in EmailInputs : PlayStart(r, t, "g1", e)
  \/ \E r \in Requests : PlayEmailUpdate(r, TRUE)
  \/ \E r \in Requests, random \in AllDraws : PlayCooldownCheck(r, random)
  \/ \E r \in Requests : ShopifyCall(r, "id")
  \/ \E r \in Requests : DiscountCreate(r, TRUE)
  \/ \E r \in Requests : PlayCreate(r, TRUE)
  \/ \E r \in Requests : VisitorUpdate(r, TRUE)
  \/ \E r \in Requests : SessionUpdate(r, TRUE)
  \/ \E r \in Requests : AnalyticsUpsert(r, TRUE)
  \/ \E r \in Requests, t \in SessionTokenInputs : TrackStart(r, t, "view", "/cart")
  \/ \E r \in Requests : TrackUpdate(r, TRUE)
  \/ \E r \in Requests, t \in SessionTokenInputs, d \in ClaimDiscountInputs,
        e \in ClaimEmailInputs : ClaimStart(r, t, d, e)
  \/ \E r \in Requests : ClaimDiscount(r)
  \/ \E r \in Requests : ClaimUpdate(r, TRUE)
  \/ \E r \in Requests, c \in VerifyCodeInputs, d \in {"d1", NONE} : Verify(r, c, d)
  \/ \E r \in Requests, t \in SessionTokenInputs : StatusStart(r, t)
  \/ \E r \in Requests, g \in { x.id : x \in games } \cup {NONE}, i \in 0..Len(rules) :
       StatusCount(r, g, i)
  \/ Tick

SessionSpec == SessionInit /\ [][SessionNext]_vars

\* ------------------------------------------------ init under targeting
\* The targeting rules a shop may have configured: for every visit or for new
\* visitors on product pages, pointing at a Game that is active, disabled,
\* not yet open or closed, at three priorities, one of them switched off.
TargetingRule(id, priority, pageType, visitorType, gameId, isActive) ==
  [id |-> id, shopId |-> "s1", isActive |-> isActive, priority |-> priority,
   pageType |-> pageType, visitorType |-> visitorType, utmSource |-> {},
   gameId |-> gameId]

TargetingPool ==
  { TargetingRule("tr1", 1, {}, "ALL", "g2", TRUE),
    TargetingRule("tr2", 2, {"product"}, "NEW", "g2", TRUE),
    TargetingRule("tr3", 2, {"product", "cart"}, "RETURNING", "g1", TRUE),
    TargetingRule("tr4", 3, {}, "ALL", "g3", TRUE),
    TargetingRule("tr5", 3, {"index"}, "ALL", "g5", TRUE),
    TargetingRule("tr6", 1, {}, "NOT_LOGGED_IN", "g4", TRUE),
    TargetingRule("tr7", 3, {}, "ALL", "g1", FALSE) }

TargetingSets == { set \in SUBSET TargetingPool : Cardinality(set) <= MaxTargeting }

TargetingInit ==
  /\ StoreInit
  /\ games = Games
  /\ rules = RuleConfig(1, 1, FALSE)
  /\ targeting \in TargetingSets
  /\ resolverItems = << >>
  /\ resolverResult = NoSelection

TargetingPageInputs == {"/", "/products/p", NONE}

TargetingNext ==
  \/ \E r \in Requests, d \in SeqShopInputs, f \in SeqFingerprintInputs,
        page \in TargetingPageInputs : InitStart(r, d, f, page, NONE)
  \/ \E r \in Requests : InitVisitor(r, TRUE)
  \/ \E r \in Requests, t \in TokenChoices : InitSession(r, t, TRUE)
  \/ \E r \in Requests, g \in { x.id : x \in games } \cup {NONE} : InitCount(r, g)
  \/ Tick

TargetingSpec == TargetingInit /\ [][TargetingNext]_vars

\* --------------------------------------------- init after earlier plays
\* Visitor v1 has played game g1 once, two hours before the first request, and
\* lost; the rule of g1 allows one or two plays per three hours.
CooldownInit ==
  /\ now = StartHour
  /\ shops = Shops
  /\ games = PlayGames
  /\ rules \in { RuleConfig(1, 3, FALSE), RuleConfig(2, 3, FALSE) }
  /\ targeting = {}
  /\ resolverItems = << >>
  /\ resolverResult = NoSelection
  /\ visitors = [v \in VisitorIds |->
                   [shopId |-> "s1", fingerprint |-> IF v = "v2" THEN "f2" ELSE "f1",
                    email |-> IF v = "v2" THEN "v2@x" ELSE NONE, customerId |-> NONE,
                    lastVisit |-> StartHour,
                    totalPlays |-> IF v = "v1" THEN 1 ELSE 0, totalWins |-> 0]]
  /\ sessions = [t \in Tokens |->
                   [visitorId |-> IF t = "t2" THEN "v2" ELSE "v1",
                    isActive |-> t # "t3",
                    lastActivityAt |-> StartHour, currentPage |-> "/"]]
  /\ plays = { [id |-> 0, gameId |-> "g1", visitorId |-> "v1", result |-> "LOSE",
                segmentId |-> "sg2", discountId |-> 0, playedAt |-> StartHour - TickHours] }
  /\ discounts = {}
  /\ analytics = { [gameId |-> "g1", date |-> StartOfDay(StartHour - TickHours),
                    plays |-> 1, wins |-> 0, redemptions |-> 0] }
  /\ req = [r \in Requests |-> IdleReq]
  /\ resp = [r \in Requests |-> NoResp]
  /\ writes = [r \in Requests |-> {}]
  /\ faults = 0
  /\ orders = [o \in Orders |-> IdleOrder]

CooldownNext ==
  \/ \E r \in Requests, g \in {"g1", "g2"} : Sequential(r) /\ PlayStart(r, "t1", g, NONE)
  \/ \E r \in Requests, random \in AllDraws : PlayCooldownCheck(r, random)
  \/ \E r \in Requests : ShopifyCall(r, "id")
  \/ \E r \in Requests : DiscountCreate(r, TRUE)
  \/ \E r \in Requests : PlayCreate(r, TRUE)
  \/ \E r \in Requests : VisitorUpdate(r, TRUE)
  \/ \E r \in Requests : SessionUpdate(r, TRUE)
  \/ \E r \in Requests : AnalyticsUpsert(r, TRUE)
  \/ \E r \in Requests, f \in SeqFingerprintInputs :
       Sequential(r) /\ InitStart(r, "d1", f, "/", NONE)
  \/ \E r \in Requests : InitVisitor(r, TRUE)
  \/ \E r \in Requests, t \in TokenChoices : InitSession(r, t, TRUE)
  \/ \E r \in Requests, g \in { x.id : x \in games } \cup {NONE} : InitCount(r, g)
  \/ \E r \in Requests : InitLastPlay(r)
  \/ Tick

CooldownSpec == CooldownInit /\ [][CooldownNext]_vars

\* ------------------------------------------- init under UTM targeting
\* Rules that list UTM sources, pointing at the active Game g2 and at g4; the
\* default Game is g1.
UtmRule(id, priority, utmSource, gameId) ==
  [TargetingRule(id, priority, {}, "ALL", gameId, TRUE) EXCEPT !.utmSource = utmSource]

UtmPool ==
  { UtmRule("u1", 2, {"news"}, "g2"),
    UtmRule("u2", 1, {"news", "ads"}, "g4"),
    UtmRule("u3", 1, {"ads"}, "g2") }

UtmInit ==
  /\ StoreInit
  /\ games = Games
  /\ rules = RuleConfig(1, 1, FALSE)
  /\ targeting \in (SUBSET UtmPool) \ {{}}
  /\ resolverItems = << >>
  /\ resolverResult = NoSelection

\* body.utmSource: absent, listed by some rule, listed by none
UtmInputs == {NONE, "news", "ads", "mail"}

UtmNext ==
  \/ \E r \in Requests, d \in SeqShopInputs, f \in SeqFingerprintInputs,
        utmSource \in UtmInputs : InitStart(r, d, f, "/", utmSource)
  \/ \E r \in Requests : InitVisitor(r, TRUE)
  \/ \E r \in Requests, t \in TokenChoices : InitSession(r, t, TRUE)
  \/ \E r \in Requests, g \in { x.id : x \in games } \cup {NONE} : InitCount(r, g)

UtmSpec == UtmInit /\ [][UtmNext]_vars

\* ------------------------------------------------------------ two shops
\* Shops s1 and s2, both installed.  Visitor v1 (session t1) belongs to s1,
\* Visitor v2 (session t2) to s2; v2 has won a Discount on game g7 of s2 two
\* hours before the first request.  Each shop has an active rule.
TwoShops ==
  [domain \in {"d1", "d2"} |->
     [id |-> IF domain = "d1" THEN "s1" ELSE "s2", isActive |-> TRUE]]

OtherShopRule ==
  [id |-> "r2", shopId |-> "s2", gameId |-> NONE, isActive |-> TRUE,
   maxPlaysPerVisitor |-> 1, cooldownHours |-> 1, requireEmail |-> FALSE, validityDays |-> 1]

OtherShopDiscount ==
  [id |-> 9, shopId |-> "s2", visitorId |-> "v2", ruleId |-> "r2",
   code |-> generateDiscountCode(CodePrefix(Segment("sg9")), 1),
   shopifyId |-> "gid", type |-> "PERCENTAGE", value |-> 10,
   createdAt |-> StartHour - TickHours,
   expiresAt |-> addDays(StartHour - TickHours, 1),
   status |-> "CREATED", usedAt |-> NoDate]

ShopsInit ==
  /\ now = StartHour
  /\ shops = TwoShops
  /\ games = PlayGames \cup {OtherShopGame}
  /\ rules = RuleConfig(1, 1, FALSE) \o << OtherShopRule >>
  /\ targeting = {}
  /\ resolverItems = << >>
  /\ resolverResult = NoSelection
  /\ visitors = [v \in VisitorIds |->
                   IF v = "v2"
                     THEN [shopId |-> "s2", fingerprint |-> "f2", email |-> "v2@x",
                           customerId |-> NONE, lastVisit |-> StartHour,
                           totalPlays |-> 1, totalWins |-> 1]
                     ELSE [shopId |-> "s1", fingerprint |-> "f1", email |-> NONE,
                           customerId |-> NONE, lastVisit |-> StartHour,
                           totalPlays |-> 0, totalWins |-> 0]]
  /\ sessions = [t \in Tokens |->
                   [visitorId |-> IF t = "t2" THEN "v2" ELSE "v1",
                    isActive |-> t # "t3",
                    lastActivityAt |-> StartHour, currentPage |-> "/"]]
  /\ plays = { [id |-> 9, gameId |-> "g7", visitorId |-> "v2", result |-> "WIN",
                segmentId |-> "sg9", discountId |-> 9, playedAt |-> StartHour - TickHours] }
  /\ discounts = {OtherShopDiscount}
  /\ analytics = { [gameId |-> "g7", date |-> StartOfDay(StartHour - TickHours),
                    plays |-> 1, wins |-> 1, redemptions |-> 0] }
  /\ req = [r \in Requests |-> IdleReq]
  /\ resp = [r \in Requests |-> NoResp]
  /\ writes = [r \in Requests |-> {}]
  /\ faults = 0
  /\ orders = [o \in Orders |-> IdleOrder]

ShopDomainInputs == {"d1", "d2"}

\* sessions of both Visitors, an inactive one and an unknown token
ShopsTokenInputs == {"t1", "t2", "t3", "tx"}

\* the codes a caller may hold: those the two shops' winning segments give
ShopsCodeInputs ==
  { generateDiscountCode(CodePrefix(Segment("sg1")), n) : n \in 1..NumSuffix }

ShopsNext ==
  \/ \E r \in Requests, t \in {"t1", "t2"}, g \in {"g1", "g7"} :
       Sequential(r) /\ PlayStart(r, t, g, NONE)
  \/ \E r \in Requests, random \in AllDraws : PlayCooldownCheck(r, random)
  \/ \E r \in Requests : ShopifyCall(r, "id")
  \/ \E r \in Requests : DiscountCreate(r, TRUE)
  \/ \E r \in Requests : PlayCreate(r, TRUE)
  \/ \E r \in Requests : VisitorUpdate(r, TRUE)
  \/ \E r \in Requests : SessionUpdate(r, TRUE)
  \/ \E r \in Requests : AnalyticsUpsert(r, TRUE)
  \/ \E r \in Requests, c \in ShopsCodeInputs, d \in ShopDomainInputs \cup {NONE} :
       Sequential(r) /\ Verify(r, Typed(c, "upper"), d)
  \/ \E r \in Requests, d \in ShopDomainInputs :
       Sequential(r) /\ InitStart(r, d, "f1", "/", NONE)
  \/ \E r \in Requests : InitVisitor(r, TRUE)
  \/ \E r \in Requests, t \in TokenChoices : InitSession(r, t, TRUE)
  \/ \E r \in Requests, g \in { x.id : x \in games } \cup {NONE} : InitCount(r, g)
  \/ \E r \in Requests : InitLastPlay(r)
  \/ \E r \in Requests, t \in ShopsTokenInputs, d \in discounts :
       Sequential(r) /\ ClaimStart(r, t, d.id, "b@x.io")
  \/ \E r \in Requests : ClaimDiscount(r)
  \/ \E r \in Requests : ClaimUpdate(r, TRUE)
  \/ \E d \in ShopDomainInputs : Uninstall(d)

ShopsSpec == ShopsInit /\ [][ShopsNext]_vars

\* ------------------------------------------ discounts and their redemption
\* Plays, claims and verifications served one at a time; order-paid
\* deliveries arrive between them and interleave with each other; days pass.
RedeemInit ==
  /\ StoreInit
  /\ games = PlayGames
  /\ rules = RuleConfig(2, 1, FALSE)
  /\ targeting = {}
  /\ resolverItems = << >>
  /\ resolverResult = NoSelection

\* the codes an order may carry: codes this program has generated
OrderCodeInputs ==
  { << >> } \cup
  { << generateDiscountCode(CodePrefix(Segment("sg1")), n) >> : n \in NanoChoices }

CustomerInputs == { NoCustomer, [present |-> TRUE, email |-> "c@x.io"] }

\* no order-paid delivery is between its first step and its answer
OrdersIdle == \A o \in Orders : orders[o].pc \in {"idle", "done"}

\* request r is served alone
Alone(r) == Sequential(r) /\ OrdersIdle

RedeemNext ==
  \/ \E r \in Requests : Alone(r) /\ PlayStart(r, "t1", "g1", NONE)
  \/ \E r \in Requests, random \in AllDraws : PlayCooldownCheck(r, random)
  \/ \E r \in Requests : ShopifyCall(r, "id")
  \/ \E r \in Requests : DiscountCreate(r, TRUE)
  \/ \E r \in Requests : PlayCreate(r, TRUE)
  \/ \E r \in Requests : VisitorUpdate(r, TRUE)
  \/ \E r \in Requests : SessionUpdate(r, TRUE)
  \/ \E r \in Requests : AnalyticsUpsert(r, TRUE)
  \/ \E r \in Requests, c \in VerifyCodeInputs, d \in {"d1", NONE} :
       Alone(r) /\ Verify(r, c, d)
  \/ \E r \in Requests : Alone(r) /\ ClaimStart(r, "t1", 1, "b@x.io")
  \/ \E r \in Requests : ClaimDiscount(r)
  \/ \E r \in Requests : ClaimUpdate(r, TRUE)
  \/ \E o \in Orders, d \in {"d1", "dx"}, codes \in OrderCodeInputs,
        customer \in CustomerInputs :
       (\A r \in Requests : Sequential(r)) /\ OrderStart(o, d, codes, customer)
  \/ \E o \in Orders : OrderFind(o)
  \/ \E o \in Orders : OrderUse(o, TRUE)
  \/ \E o \in Orders : OrderVisitor(o, TRUE)
  \/ \E o \in Orders : OrderAnalytics(o, TRUE)
  \/ TickDay

RedeemSpec == RedeemInit /\ [][RedeemNext]_vars

\* ------------------------------------------------- the outcome resolver
\* The lists handed to weightedRandom: up to MaxItems items of integer weight
\* 0..MaxWeight.
RECURSIVE WeightLists(_)
WeightLists(n) ==
  IF n = 0 THEN { << >> }
  ELSE { Append(l, [id |-> n, probability |-> w]) : l \in WeightLists(n - 1), w \in 0..MaxWeight }

ItemLists == UNION { WeightLists(n) : n \in 0..MaxItems }

ResolverInit ==
  /\ StoreInit
  /\ games = PlayGames
  /\ rules = << >>
  /\ targeting = {}
  /\ resolverItems \in ItemLists
  /\ resolverResult = NoSelection

\* one call weightedRandom(items) in which Math.random() * total gives `random`
Resolve(random) ==
  /\ random \in RandomDraws(resolverItems)
  /\ resolverResult' = [drawn |-> TRUE, random |-> random,
                        index |-> weightedRandom(resolverItems, random)]
  /\ UNCHANGED << shops, games, targeting, resolverItems, now, rules, visitors, sessions,
                  plays, discounts, analytics, req, resp, writes, faults, orders >>

ResolverNext == \E random \in 0..(DrawRes * MaxItems * MaxWeight) : Resolve(random)

ResolverSpec == ResolverInit /\ [][ResolverNext]_vars

\* ================================================================ claims
Quiescent == \A r \in Requests : req[r].pc \in {"idle", "done"}

PlayRequests == { r \in Requests : req[r].op = "play" }

\* the rows of a set of Analytics rows, summed over a counter
RECURSIVE SumPlays(_)
SumPlays(rows) ==
  IF rows = {} THEN 0
  ELSE LET a == CHOOSE x \in rows : TRUE IN a.plays + SumPlays(rows \ {a})

RECURSIVE SumWins(_)
SumWins(rows) ==
  IF rows = {} THEN 0
  ELSE LET a == CHOOSE x \in rows : TRUE IN a.wins + SumWins(rows \ {a})

\* C1: in every state, for every Visitor and Game with an applicable rule, the
\* Plays of the pair whose playedAt lies in the last cooldownHours number at
\* most the rule's maxPlaysPerVisitor.
C1_CooldownLimit ==
  \A v \in VisitorIds, g \in Games :
    LET i == FindRule(g.id, visitors[v].shopId)
    IN  i # 0 =>
          CountPlays(v, g.id, now - rules[i].cooldownHours) <= rules[i].maxPlaysPerVisitor

\* C2: when maxPlaysPerVisitor + 1 play requests of one Visitor and Game have
\* all answered within one cooldown window that held no earlier Play, and none
\* ended in an internal error, exactly maxPlaysPerVisitor of them succeeded
\* and every other one was answered 429 'Play limit reached'.
C2_ExactlyMaxSucceed ==
  \A v \in VisitorIds, g \in Games :
    LET i == FindRule(g.id, visitors[v].shopId)
        R == { r \in PlayRequests :
                 /\ req[r].token # NONE
                 /\ sessions[req[r].token].visitorId = v
                 /\ req[r].gameId = g.id }
    IN  ( /\ i # 0
          /\ now = StartHour
          /\ Cardinality(R) = rules[i].maxPlaysPerVisitor + 1
          /\ \A r \in R : req[r].pc = "done" /\ resp[r].status # 500 )
        => /\ Cardinality({ r \in R : resp[r].status = 200 }) = rules[i].maxPlaysPerVisitor
           /\ \A r \in R : resp[r].status # 200 =>
                 resp[r].status = 429 /\ resp[r].error = "Play limit reached"

\* C3: under a rule with maxPlaysPerVisitor = 1, at most one Discount of that
\* rule is granted to a Visitor within the cooldown window.
C3_OneDiscountPerWindow ==
  \A v \in VisitorIds, i \in 1..Len(rules) :
    rules[i].maxPlaysPerVisitor = 1 =>
      Cardinality({ d \in discounts :
                      /\ d.visitorId = v
                      /\ d.ruleId = rules[i].id
                      /\ d.createdAt >= now - rules[i].cooldownHours }) <= 1

C5_NothingLeftBehind ==
  Quiescent =>
    /\ \A d \in discounts : \E p \in plays : p.discountId = d.id
    /\ \A v \in VisitorIds :
         visitors[v].totalPlays = Cardinality({ p \in plays : p.visitorId = v })
    /\ \A g \in Games :
         SumPlays({ a \in analytics : a.gameId = g.id }) =
           Cardinality({ p \in plays : p.gameId = g.id })

PersistedBy(r) ==
  writes[r] \cap {"discount", "play", "visitor.stats", "analytics"}

\* C6: the step in which the platform call of a winning play fails ends the
\* request with a 500 and changes no Play, Discount or Analytics row and no
\* Visitor counter; a request that failed this way has persisted no Play, no
\* Discount and no counter increment.
C6_PlatformFailureFailsPlay ==
  [][\A r \in Requests :
       /\ ShopifyCall(r, "error") =>
            /\ req'[r].pc = "done"
            /\ resp'[r].status = 500
            /\ UNCHANGED << plays, discounts, analytics >>
            /\ \A v \in VisitorIds :
                 /\ visitors'[v].totalPlays = visitors[v].totalPlays
                 /\ visitors'[v].totalWins = visitors[v].totalWins
       /\ resp'[r].log = "Shopify API error" =>
            /\ \A p \in plays' : p.id # r
            /\ \A d \in discounts' : d.id # r
            /\ PersistedBy(r)' = {}
    ]_vars

C6_Witness ==
  \E r \in PlayRequests :
    /\ req[r].pc = "done"
    /\ resp[r].status = 500
    /\ resp[r].log = "Shopify API error"

\* C7: every play request that has started eventually answers, whether or not
\* the commerce platform answers the discount-creation call.
C7_PlayAlwaysAnswers ==
  \A r \in Requests :
    (req[r].op = "play" /\ req[r].pc # "done") ~> (req[r].pc = "done")

\* C8: once every request has answered and none ended in an internal error,
\* each successful play has exactly one Play row, the Plays are exactly those of
\* the successful plays, every Visitor's totalPlays (totalWins) is the number of
\* its Play rows (WIN rows), and the Analytics rows of a Game, each dated with a
\* day that was current, hold as many plays (wins) as the Game has Plays (WINs).
C8_SuccessfulPlaysCounted ==
  (Quiescent /\ \A r \in Requests : resp[r].status # 500) =>
    /\ \A r \in PlayRequests :
         resp[r].status = 200 =>
           /\ Cardinality({ p \in plays : p.id = resp[r].playId }) = 1
           /\ \A p \in plays : p.id = resp[r].playId => p.result = resp[r].result
    /\ Cardinality(plays) = Cardinality({ r \in PlayRequests : resp[r].status = 200 })
    /\ \A v \in VisitorIds :
         /\ visitors[v].totalPlays = Cardinality({ p \in plays : p.visitorId = v })
         /\ visitors[v].totalWins =
              Cardinality({ p \in plays : p.visitorId = v /\ p.result = "WIN" })
    /\ \A g \in Games :
         LET rows == { a \in analytics : a.gameId = g.id }
         IN  /\ SumPlays(rows) = Cardinality({ p \in plays : p.gameId = g.id })
             /\ SumWins(rows) =
                  Cardinality({ p \in plays : p.gameId = g.id /\ p.result = "WIN" })
             /\ \A a \in rows : \E t \in StartHour..now : a.date = StartOfDay(t)

C8_Witness ==
  /\ Quiescent
  /\ \A r \in Requests : resp[r].status = 200
  /\ \E p \in plays : p.result = "WIN"
  /\ \E p \in plays : p.result = "LOSE"
  /\ \E v \in VisitorIds : visitors[v].totalPlays = 2 /\ visitors[v].totalWins = 1

\* C9: a play request answered 400, 401, 404 or 429 has written nothing to
\* the store.
C9_RejectedWritesNothing ==
  \A r \in PlayRequests :
    resp[r].status \in {400, 401, 404, 429} => writes[r] = {}

SessionActive(t) == t \in DOMAIN sessions /\ sessions[t].isActive

\* C10: play and track answer 401 exactly when the session token is unknown or
\* names a Session whose active flag is false.
C10_SessionGate ==
  [][\A r \in Requests, t \in TokenInputs \ {NONE} :
       /\ \A g \in GameInputs \ {NONE}, e \in EmailInputs :
            PlayStart(r, t, g, e) => (resp'[r].status = 401 <=> ~SessionActive(t))
       /\ \A ev \in EventInputs \ {NONE}, pg \in PageInputs :
            TrackStart(r, t, ev, pg) => (resp'[r].status = 401 <=> ~SessionActive(t))
    ]_vars

\* a Game row that is not active now: flag cleared, or now outside its window
NotActiveGame(gameId) ==
  \E g \in games : g.id = gameId /\ ~(g.isActive /\ InWindow(g))

\* C11: a play with a valid session that names a Game which is not active (flag
\* cleared, or now before its startDate or after its endDate) is answered 404
\* at once, before any Play or Discount is created.
C11_InactiveGameRejected ==
  [][\A r \in Requests, t \in TokenInputs, g \in GameInputs \ {NONE}, e \in EmailInputs :
       (PlayStart(r, t, g, e) /\ SessionActive(t) /\ NotActiveGame(g)) =>
          (req'[r].pc = "done" /\ resp'[r].status = 404)
    ]_vars

\* The rule that applies to a Game: the most recently created active rule
\* specific to the Game, else the most recently created active shop-wide rule
\* (index in rules, 0 when there is none).
ActiveRules(gameId, shopId) ==
  { i \in 1..Len(rules) :
      rules[i].shopId = shopId /\ rules[i].isActive /\ rules[i].gameId = gameId }

Latest(indices) == CHOOSE i \in indices : \A j \in indices : j <= i

ApplicableRule(gameId, shopId) ==
  IF ActiveRules(gameId, shopId) # {} THEN Latest(ActiveRules(gameId, shopId))
  ELSE IF ActiveRules(NONE, shopId) # {} THEN Latest(ActiveRules(NONE, shopId))
  ELSE 0

\* C12: a play that reaches the email check is answered 400 'Email required'
\* exactly when the applicable rule has requireEmail set and neither the
\* request nor the Visitor carries an email.
C12_EmailRequired ==
  [][\A r \in Requests, t \in TokenInputs \ {NONE}, g \in GameInputs \ {NONE}, e \in EmailInputs :
       (PlayStart(r, t, g, e) /\ SessionActive(t)) =>
          LET visitor == visitors[sessions[t].visitorId]
              i == ApplicableRule(g, visitor.shopId)
          IN  (FindGame(g, visitor.shopId) # {} /\ i # 0) =>
                ( (resp'[r].status = 400 /\ resp'[r].error = "Email required")
                  <=> (rules[i].requireEmail /\ e = NONE /\ visitor.email = NONE) )
    ]_vars

\* C13: the rule a play goes on with, and the rule recorded on the Discount it
\* creates, is the rule that applies to the Game: the latest active rule
\* specific to the Game, else the latest active shop-wide rule.
C13_RuleSelection ==
  [][/\ \A r \in Requests, t \in TokenInputs, g \in GameInputs, e \in EmailInputs :
          (PlayStart(r, t, g, e) /\ req'[r].pc \in {"email", "count"}) =>
             FindRule(g, visitors[sessions[t].visitorId].shopId)
               = ApplicableRule(g, visitors[sessions[t].visitorId].shopId)
     /\ \A r \in Requests :
          DiscountCreate(r, TRUE) =>
             \A d \in discounts' \ discounts :
                d.ruleId = rules[ApplicableRule(req[r].gameId, d.shopId)].id
    ]_vars

InitRequests == { r \in Requests : req[r].op = "init" }

\* C14: when no active rule applies to a Game, a play of it is answered at once
\* with 400 'No discount rule found' (no outcome drawn, no Play or Discount
\* created), and an init that offers the Game reports canPlay = false.
C14_NoRuleNotPlayable ==
  [][/\ \A r \in Requests, t \in TokenInputs \ {NONE}, g \in GameInputs \ {NONE}, e \in EmailInputs :
          (PlayStart(r, t, g, e) /\ SessionActive(t)) =>
             LET shopId == visitors[sessions[t].visitorId].shopId
             IN  (FindGame(g, shopId) # {} /\ ApplicableRule(g, shopId) = 0) =>
                    /\ req'[r].pc = "done"
                    /\ resp'[r].status = 400
                    /\ resp'[r].error = "No discount rule found"
     /\ \A r \in InitRequests' :
          (resp'[r].status = 200 /\ resp'[r].activeGame # NONE) =>
             (ApplicableRule(resp'[r].activeGame, Game(resp'[r].activeGame).shopId) = 0
                => ~resp'[r].canPlay)
    ]_vars

\* C15: a play that passes the cooldown check on a Game whose segment weights
\* sum to 0 is answered 500 'No segments configured': no segment is selected
\* and no Play or Discount is created.
C15_ZeroWeightsRejected ==
  [][\A r \in Requests, random \in AllDraws :
       ( /\ PlayCooldownCheck(r, random)
         /\ totalProbability(GameOf(r).segments) = 0
         /\ resp'[r].status # 429 ) =>
            /\ req'[r].pc = "done"
            /\ resp'[r].status = 500
            /\ resp'[r].error = "No segments configured"
    ]_vars

PositiveItems == { i \in 1..Len(resolverItems) : resolverItems[i].probability > 0 }

\* C16: when exactly one item of the list has positive weight, the resolver
\* returns that item for every draw.
C16_OnlyPositiveSelected ==
  (resolverResult.drawn /\ Cardinality(PositiveItems) = 1) =>
     resolverResult.index \in PositiveItems

\* the sum of the weights of the first n items
RECURSIVE Cumulative(_)
Cumulative(n) ==
  IF n = 0 THEN 0 ELSE resolverItems[n].probability + Cumulative(n - 1)

\* C17: for a list of total weight T > 0 and an integer draw r in 0..T-1, the
\* resolver returns the item i whose cumulative interval
\* [w1+..+w(i-1), w1+..+wi) holds r.
C17_FairIntervals ==
  ( /\ resolverResult.drawn
    /\ Cumulative(Len(resolverItems)) > 0
    /\ resolverResult.random % DrawRes = 0 ) =>
     LET draw == resolverResult.random \div DrawRes
         i == resolverResult.index
     IN  /\ i \in 1..Len(resolverItems)
         /\ Cumulative(i - 1) <= draw
         /\ draw < Cumulative(i)

\* C18: an init for an existing active shop is answered 200 (400 and 404 are
\* the answers for a missing, unknown or inactive shop; a collision of the
\* random session token is left aside), and no two Visitors have the same
\* (shop, fingerprint): interleaved inits with the same unseen fingerprint all
\* succeed, bound to the one Visitor.
C18_InitNeverFails ==
  /\ \A r \in InitRequests :
       req[r].pc = "done" =>
         \/ resp[r].status \in {200, 400, 404}
         \/ resp[r].log = "Unique constraint failed on (token)"
  /\ \A v, w \in DOMAIN visitors :
       (visitors[v].shopId = visitors[w].shopId /\ visitors[v].fingerprint = visitors[w].fingerprint)
          => v = w

\* C19: no step of init, play, track, claim, status or verify removes a
\* Session or changes the Visitor it is bound to; Sessions are keyed by their
\* token, so a second Session with a token in use would replace the first.
C19_SessionVisitorFixed ==
  [][\A t \in DOMAIN sessions :
       /\ t \in DOMAIN sessions'
       /\ sessions'[t].visitorId = sessions[t].visitorId]_vars

\* a Session created by an init has since been written by a track
C19_Witness ==
  /\ \E r \in InitRequests : resp[r].status = 200 /\ resp[r].sessionToken = "k1"
  /\ "k1" \in DOMAIN sessions
  /\ sessions["k1"].currentPage = "/cart"

\* a play of the Game by the Visitor, issued now, is rejected as rate-limited
PlayRateLimited(visitorId, gameId) ==
  LET i == FindRule(gameId, visitors[visitorId].shopId)
  IN  /\ i # 0
      /\ LimitReached(CountPlays(visitorId, gameId, now - rules[i].cooldownHours), rules[i])

\* max(0, playedAt of the most recent Play + cooldownHours - now), with the
\* cooldownHours of the rule the handlers apply
ExpectedCooldown(visitorId, gameId) ==
  LET i == FindRule(gameId, visitors[visitorId].shopId)
      last == LastPlay(visitorId, gameId)
  IN  IF i = 0 \/ last = {}
        THEN 0
        ELSE Max(0, (CHOOSE p \in last : TRUE).playedAt + rules[i].cooldownHours - now)

\* C20: an init that answers with a Game reports cooldownRemaining = 0 with
\* canPlay = true; with canPlay = false it reports max(0, playedAt of the
\* Visitor's most recent Play of the Game + cooldownHours - now), and more than
\* 0 when a play of that Game would be rejected as rate-limited at that moment.
C20_CooldownReported ==
  [][\A r \in Requests :
       ( /\ req[r].op = "init"
         /\ req[r].pc # "done"
         /\ req'[r].pc = "done"
         /\ resp'[r].status = 200
         /\ resp'[r].activeGame # NONE ) =>
            LET g == resp'[r].activeGame
                v == resp'[r].visitorId
            IN  /\ resp'[r].canPlay => resp'[r].cooldownRemaining = 0
                /\ ~resp'[r].canPlay => resp'[r].cooldownRemaining = ExpectedCooldown(v, g)
                /\ PlayRateLimited(v, g) => resp'[r].cooldownRemaining > 0
    ]_vars

\* the active targeting rules of the shop whose predicates all match the
\* visit of init request r
MatchingRules(r) ==
  { t \in targeting :
      /\ t.shopId = req[r].shopId
      /\ t.isActive
      /\ TargetingMatches(t, req[r].page, req[r].isNewVisitor, req[r].email,
                          req[r].utmSource) }

\* init request r answers in this step, its default Game being `activeGame`
InitAnswers(r, activeGame) ==
  /\ InitCount(r, activeGame) \/ (InitLastPlay(r) /\ activeGame = req[r].gameId)
  /\ req'[r].pc = "done"
  /\ resp'[r].status = 200

\* C21: the Game an init offers is decided by a matching targeting rule that no
\* matching rule exceeds in priority (its Game replaces the default one when it
\* is found enabled), and it is the default Game when no rule matches.
C21_PriorityDecides ==
  [][\A r \in Requests, activeGame \in { g.id : g \in games } \cup {NONE} :
       InitAnswers(r, activeGame) =>
         IF MatchingRules(r) = {}
           THEN resp'[r].activeGame = activeGame
           ELSE \E t \in MatchingRules(r) :
                  /\ \A u \in MatchingRules(r) : u.priority <= t.priority
                  /\ resp'[r].activeGame =
                       IF FindGame(t.gameId, req[r].shopId) # {} THEN t.gameId ELSE activeGame
    ]_vars

\* a returning visitor was offered g1 by the rule of priority 2 although the
\* rule of priority 1, which points at g2, matches every visit
C21_Witness ==
  /\ targeting = { TargetingRule("tr1", 1, {}, "ALL", "g2", TRUE),
                   TargetingRule("tr3", 2, {"product", "cart"}, "RETURNING", "g1", TRUE) }
  /\ \E r \in InitRequests :
       /\ resp[r].status = 200
       /\ ~resp[r].isNewVisitor
       /\ resp[r].activeGame = "g1"

\* C22: the Game an init returns is an active Game of the requesting shop:
\* enabled and, at the time of the answer, within its date window; with no
\* such Game the init returns none.
C22_OfferedGameActive ==
  [][\A r \in Requests, activeGame \in { g.id : g \in games } \cup {NONE} :
       (InitAnswers(r, activeGame) /\ resp'[r].activeGame # NONE) =>
          resp'[r].activeGame \in { g.id : g \in ActiveGames(req[r].shopId) }
    ]_vars

\* the rule of the scenario: new visitors on product pages are sent to g2
NewOnProduct == TargetingRule("tr2", 2, {"product"}, "NEW", "g2", TRUE)

\* C23: with that rule alone and g1 the default Game, an init for a product
\* page returns g2 exactly when the request created the Visitor, and g1
\* otherwise.
C23_NewVisitorTargeted ==
  [][\A r \in Requests :
       ( /\ targeting = {NewOnProduct}
         /\ req[r].page = "/products/p"
         /\ InitAnswers(r, "g1") ) =>
            resp'[r].activeGame =
               IF "visitor.create" \in writes[r] THEN "g2" ELSE "g1"
    ]_vars

\* the first init of a fingerprint was offered g2, a later one of the same
\* Visitor g1
C23_Witness ==
  /\ targeting = {NewOnProduct}
  /\ \E r, q \in InitRequests :
       /\ resp[r].status = 200 /\ resp[r].isNewVisitor /\ resp[r].activeGame = "g2"
       /\ resp[q].status = 200 /\ ~resp[q].isNewVisitor /\ resp[q].activeGame = "g1"
       /\ resp[q].visitorId = resp[r].visitorId

C25_StatusVerifyReadOnly ==
  [][\A r \in Requests :
       (req'[r] # req[r] /\ req'[r].op \in {"status", "verify"}) =>
          UNCHANGED << visitors, sessions, plays, discounts, analytics >>
    ]_vars

\* a verify has reported the Discount of an earlier winning play as valid
C25_Witness ==
  \E r \in Requests :
    /\ req[r].op = "verify"
    /\ resp[r].valid
    /\ \E d \in discounts : d.status = "CREATED"

\* C26: in every step each Discount stays in the store; a status other than
\* CREATED is kept; a status that leaves CREATED becomes USED or EXPIRED; and
\* it becomes USED only in the step of an order-paid delivery of the
\* Discount's shop whose current code is the Discount's code.
C26_StatusForward ==
  [][\A d \in discounts :
       \E e \in discounts' :
          /\ e.id = d.id
          /\ d.status # "CREATED" => e.status = d.status
          /\ e.status # d.status => e.status \in {"USED", "EXPIRED"}
          /\ (d.status = "CREATED" /\ e.status = "USED") =>
               \E o \in Orders :
                  /\ orders[o].pc = "orderUse"
                  /\ orders'[o] # orders[o]
                  /\ orders[o].shopId = d.shopId
                  /\ Head(orders[o].codes) = d.code
    ]_vars

\* a delivery that carries the code of a Discount already USED is about to
\* look it up, next to a Discount that is still CREATED
C26_Witness ==
  \E d, c \in discounts, o \in Orders :
    /\ d.status = "USED"
    /\ c.status = "CREATED"
    /\ orders[o].pc = "orderFind"
    /\ orders[o].codes # << >>
    /\ Head(orders[o].codes) = d.code

\* C27: in every step each Analytics row stays in the store under its key
\* (game, date) and none of its plays, wins and redemptions counters gets
\* smaller.
C27_CountersMonotone ==
  [][\A a \in analytics :
       \E b \in analytics' :
          /\ b.gameId = a.gameId
          /\ b.date = a.date
          /\ b.plays >= a.plays
          /\ b.wins >= a.wins
          /\ b.redemptions >= a.redemptions
    ]_vars

\* a game's row counted a second play of the day after a win, and the shop's
\* global row of a day counted a redemption
C27_Witness ==
  /\ \E a \in analytics : a.gameId # NONE /\ a.plays = 2 /\ a.wins >= 1
  /\ \E a \in analytics : a.gameId = NONE /\ a.redemptions >= 1

\* play requests that passed validation and the cooldown check and whose store
\* and platform calls got no injected failure: answered 200, or ended by the
\* store's refusal of a write
AcceptedPlays ==
  { r \in PlayRequests :
      /\ req[r].pc = "done"
      /\ resp[r].status = 200 \/ resp[r].log = "store error" }

\* C28: when the accepted plays of one day are plays of different Visitors
\* for one Game and no call was made to fail, all of them answered 200 and
\* the plays counter of the Game's Analytics row of that day is their number.
C28_IncrementsCompose ==
  ( /\ Quiescent
    /\ faults = 0
    /\ now = StartHour
    /\ Cardinality(AcceptedPlays) = NumReq
    /\ \A r, q \in AcceptedPlays :
         /\ req[r].gameId = req[q].gameId
         /\ r # q => sessions[req[r].token].visitorId # sessions[req[q].token].visitorId )
  => /\ \A r \in AcceptedPlays : resp[r].status = 200
     /\ \A r \in AcceptedPlays :
          \E a \in analytics :
             /\ a.gameId = req[r].gameId
             /\ a.date = StartOfDay(now)
             /\ a.plays = Cardinality(AcceptedPlays)

\* C29: in every state, no two Discounts of one shop have the same code.
C29_CodeUniqueInShop ==
  \A d, e \in discounts :
    (d.shopId = e.shopId /\ d.code = e.code) => d.id = e.id

\* a second Discount with the code of an existing one was refused, with no
\* call made to fail
C29_Witness ==
  /\ faults = 0
  /\ \E r \in Requests : req[r].pc = "done" /\ resp[r].log = "store error"
  /\ \E d \in discounts : d.status = "CREATED"

\* C30: a discount.create that the store answers, for a code that a Discount
\* of the same shop already has, does not end the request in an error: the
\* request goes on with a persisted Discount of its own.
C30_CollisionRetried ==
  [][\A r \in Requests :
       ( /\ req[r].pc = "discount"
         /\ CodeTaken(visitors[VisitorOf(r)].shopId, req[r].code)
         /\ DiscountCreate(r, TRUE) )
       => /\ resp'[r].status # 500
          /\ \E d \in discounts' : d.id = r /\ d.shopId = visitors[VisitorOf(r)].shopId
    ]_vars

\* C31: when init answers with the Game of a targeting rule in place of the
\* default Game, and every rule of the shop lists UTM sources, the visit's
\* utmSource is one of the values listed by a rule that points at that Game;
\* a visit without a UTM source keeps the default Game.
C31_UtmListed ==
  [][\A r \in Requests, activeGame \in { g.id : g \in games } \cup {NONE} :
       ( /\ InitAnswers(r, activeGame)
         /\ \A t \in targeting : t.utmSource # {}
         /\ resp'[r].activeGame # activeGame )
       => \E t \in targeting :
            /\ t.gameId = resp'[r].activeGame
            /\ req[r].utmSource \in t.utmSource
    ]_vars

\* the Discount the store holds for play request r has no external id
NullExternalId(r) == \E d \in discounts : d.id = r /\ d.shopifyId = NONE

\* C32: an answer of the commerce platform without a discount identifier does
\* not end the play: the request goes on to discount.create with a null
\* external id, the create the store accepts persists the Discount with that
\* null id, and the request's last step answers 200 WIN with the Discount's
\* code, its Play, its Visitor counters and its Analytics increment persisted.
C32_NullExternalIdTolerated ==
  [][\A r \in Requests :
       /\ ( /\ ShopifyCall(r, "userErrors")
            /\ ~CreateDiscountCodeThrows(Segment(req[r].seg)) )
          => /\ req'[r].pc = "discount"
             /\ req'[r].shopifyId = NONE
             /\ resp'[r] = resp[r]
       /\ ( /\ DiscountCreate(r, TRUE)
            /\ req[r].shopifyId = NONE
            /\ ~CodeTaken(visitors[VisitorOf(r)].shopId, req[r].code) )
          => \E d \in discounts' :
               d.id = r /\ d.shopifyId = NONE /\ d.code = req[r].code
       /\ (AnalyticsUpsert(r, TRUE) /\ NullExternalId(r))
          => /\ resp'[r].status = 200
             /\ resp'[r].result = "WIN"
             /\ \E d \in discounts : d.id = r /\ resp'[r].code = d.code
             /\ \E p \in plays : p.id = r /\ p.result = "WIN" /\ p.discountId = r
             /\ {"discount", "play", "visitor.stats", "analytics"} \subseteq writes'[r]
             /\ visitors[VisitorOf(r)].totalWins >= 1
             /\ \E a \in analytics' :
                  a.gameId = req[r].gameId /\ a.date = StartOfDay(now) /\ a.wins >= 1
    ]_vars

C32_Witness ==
  \E r \in Requests :
    /\ req[r].pc = "done"
    /\ resp[r].status = 200
    /\ resp[r].result = "WIN"
    /\ \E d \in discounts : d.id = r /\ d.shopifyId = NONE /\ d.code = resp[r].code

\* a play of the Game by the Visitor, issued at time `at` with the Plays the
\* store holds now, is rejected as rate-limited
RateLimitedAt(visitorId, gameId, at) ==
  LET i == FindRule(gameId, visitors[visitorId].shopId)
  IN  /\ i # 0
      /\ LimitReached(CountPlays(visitorId, gameId, at - rules[i].cooldownHours), rules[i])

\* C33: when init answers canPlay = false with cooldownRemaining > 0 for a
\* Game, then with the Visitor's Plays as they are a play of that Game is
\* rejected as rate-limited at every time before the reported cooldown has
\* elapsed and is not rejected at any time after it has elapsed.
C33_CooldownExact ==
  [][\A r \in Requests :
       ( /\ InitLastPlay(r)
         /\ resp'[r].status = 200
         /\ ~resp'[r].canPlay
         /\ resp'[r].cooldownRemaining > 0 )
       => \A at \in now..(now + resp'[r].cooldownRemaining + 1) :
            /\ at < now + resp'[r].cooldownRemaining =>
                 RateLimitedAt(req[r].visitorId, resp'[r].activeGame, at)
            /\ at > now + resp'[r].cooldownRemaining =>
                 ~RateLimitedAt(req[r].visitorId, resp'[r].activeGame, at)
    ]_vars

\* C34: when init answers with a Game, canPlay is true exactly when an active
\* rule applies to that Game and a play of it by the Visitor, issued at that
\* moment, is not rejected as rate-limited.
C34_CanPlayOfOfferedGame ==
  [][\A r \in Requests, activeGame \in { g.id : g \in games } \cup {NONE} :
       (InitAnswers(r, activeGame) /\ resp'[r].activeGame # NONE)
       => ( resp'[r].canPlay <=>
              /\ FindRule(resp'[r].activeGame, req[r].shopId) # 0
              /\ ~PlayRateLimited(req[r].visitorId, resp'[r].activeGame) )
    ]_vars

\* C35: a play with an active session that names a Game of a shop other than
\* the shop of the session's Visitor is answered 404 'Game not found' in its
\* first step, and that step changes no Play, Discount, Analytics row or
\* Visitor.
C35_OtherShopGameNotFound ==
  [][\A r \in Requests, t \in DOMAIN sessions, g \in games :
       ( /\ SessionActive(t)
         /\ g.shopId # visitors[sessions[t].visitorId].shopId
         /\ PlayStart(r, t, g.id, NONE) )
       => /\ req'[r].pc = "done"
          /\ resp'[r].status = 404
          /\ resp'[r].error = "Game not found"
          /\ UNCHANGED << plays, discounts, analytics, visitors >>
    ]_vars

\* with every Game named by the plays active in its own shop, a play was
\* answered 404 'Game not found' and nothing was written for it
C35_Witness ==
  \E r \in Requests :
    /\ \A g \in {"g1", "g7"} : \E x \in games : x.id = g /\ x.isActive
    /\ req[r].pc = "done"
    /\ req[r].op = "play"
    /\ resp[r].status = 404
    /\ resp[r].error = "Game not found"
    /\ writes[r] = {}
    /\ \A p \in plays : p.id # r

\* the Discounts of the shop with the given domain that have the code
DiscountsOfShop(code, shopDomain) ==
  { d \in discounts : d.code = code /\ d.shopId = shops[shopDomain].id }

\* C36: a verify that names a shop in which no Discount has the code answers
\* 'Code not found', whatever other shops hold; a verify that names no shop
\* reports no Discount as valid.
C36_VerifyScopedToShop ==
  [][\A r \in Requests, code \in ShopsCodeInputs :
       /\ \A shopDomain \in ShopDomainInputs :
            ( /\ Verify(r, Typed(code, "upper"), shopDomain)
              /\ DiscountsOfShop(code, shopDomain) = {} )
            => /\ ~resp'[r].valid
               /\ resp'[r].reason = "Code not found"
       /\ Verify(r, Typed(code, "upper"), NONE) => ~resp'[r].valid
    ]_vars

RECURSIVE SumRedemptions(_)
SumRedemptions(rows) ==
  IF rows = {} THEN 0
  ELSE LET a == CHOOSE x \in rows : TRUE IN a.redemptions + SumRedemptions(rows \ {a})

\* C37: once every order-paid delivery has answered, the redemptions counted
\* in the shop's global Analytics rows number the Discounts that are USED.
C37_RedeemedOnce ==
  OrdersIdle =>
    SumRedemptions({ a \in analytics : a.gameId = NONE }) =
      Cardinality({ d \in discounts : d.status = "USED" })

\* the shop is installed
ShopActive(shopId) ==
  \E domain \in DOMAIN shops : shops[domain].id = shopId /\ shops[domain].isActive

\* C38: an init that names a shop marked inactive and a play whose session
\* belongs to a Visitor of a shop marked inactive are refused in their first
\* step, and no step adds a Play or a Discount of a shop that is inactive.
C38_InactiveShopRefused ==
  [][/\ \A r \in Requests, shopDomain \in ShopDomainInputs :
          (InitStart(r, shopDomain, "f1", "/", NONE) /\ ~shops[shopDomain].isActive)
          => req'[r].pc = "done" /\ resp'[r].status = 404
     /\ \A r \in Requests, t \in {"t1", "t2"}, g \in {"g1", "g7"} :
          ( /\ PlayStart(r, t, g, NONE)
            /\ ~ShopActive(visitors[sessions[t].visitorId].shopId) )
          => req'[r].pc = "done" /\ resp'[r].status \in {401, 404}
     /\ \A p \in plays' \ plays : ShopActive(visitors[p.visitorId].shopId)
     /\ \A d \in discounts' \ discounts : ShopActive(d.shopId)
    ]_vars

ClaimRequests == { r \in Requests : req[r].op = "claim" }

\* C39: a well-formed claim whose session token is unknown or names an
\* inactive Session is answered 401, and one whose Session belongs to a
\* Visitor other than the Discount's is answered 403, neither carrying a code
\* nor changing a Visitor; a claim answers with a code only when its Session is
\* active and bound to the Visitor who owns the Discount with that code.
C39_ClaimOnlyByOwner ==
  [][\A r \in Requests :
       /\ \A t \in ShopsTokenInputs, d \in discounts :
            (ClaimStart(r, t, d.id, "b@x.io") /\ ~SessionActive(t))
            => /\ req'[r].pc = "done"
               /\ resp'[r].status = 401
               /\ resp'[r].code = NoCode
               /\ UNCHANGED visitors
       /\ ( /\ ClaimDiscount(r)
            /\ \E d \in discounts :
                 d.id = req[r].discountId /\ d.visitorId # sessions[req[r].token].visitorId )
          => /\ req'[r].pc = "done"
             /\ resp'[r].status = 403
             /\ resp'[r].code = NoCode
             /\ UNCHANGED visitors
       /\ (r \in ClaimRequests /\ resp'[r] # resp[r] /\ resp'[r].code # NoCode)
          => \E d \in discounts :
               /\ d.id = req[r].discountId
               /\ d.code = resp'[r].code
               /\ SessionActive(req[r].token)
               /\ sessions[req[r].token].visitorId = d.visitorId
    ]_vars

\* the owner's claim was answered with the code after another Visitor's claim
\* of the same Discount was answered 403
C39_Witness ==
  \E r, q \in Requests :
    /\ req[r].op = "claim" /\ resp[r].status = 403
    /\ req[q].op = "claim" /\ resp[q].status = 200
    /\ \E d \in discounts : d.code = resp[q].code /\ visitors[d.visitorId].email = "b@x.io"
====
